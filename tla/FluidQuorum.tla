----------------------------- MODULE FluidQuorum -----------------------------
(***************************************************************************)
(* The sovereign signature quorum of Fluid instructions                    *)
(* (CheckSignatureQuorum in src/fluid/fluiddb.cpp).                        *)
(*                                                                         *)
(* A Fluid consent token carries three signature layers. For layer n,      *)
(* CFluid::GenericVerifyInstruction(token, key, err, n) recovers the key   *)
(* that signed it, or fails; that recovery lives outside the repository   *)
(* and is an input here: signer[n] is the recovered key, NoKey for a       *)
(* failure. The sovereign addresses come from the last record of the       *)
(* sovereign database; an entry may be an address that does not parse     *)
(* (BadAddress). The inputs are chosen in the initial state and the        *)
(* properties are checked for all of them.                                 *)
(*                                                                         *)
(* IsSovereignAddress, the sovereign-address lookup of the RPC, reads the *)
(* same record and is checked against the quorum.                         *)
(***************************************************************************)
EXTENDS Integers, FiniteSets, Sequences, TLC

CONSTANTS
    Keys,           \* addresses of signing keys
    NoKey,          \* no key recovered; also the default CDebitAddress
    BadAddress,     \* a sovereign entry that is not a valid address
    SOVEREIGNS      \* number of addresses in a sovereign record (5)

ASSUME NoKey \notin Keys /\ BadAddress \notin Keys /\ SOVEREIGNS \in Nat

Layers == 1..3

VARIABLES
    dbReady,     \* CheckFluidSovereignDB and GetLastFluidSovereignRecord succeed
    sovereigns,  \* the addresses of the last sovereign record
    signer       \* layer -> the key GenericVerifyInstruction recovers

vars == <<dbReady, sovereigns, signer>>

(***************************************************************************)
(* The code.                                                               *)
(***************************************************************************)

\* The sovereign address strings, when the database yields a record.
GetLastFluidSovereignAddressStrings ==
    IF dbReady THEN [ok |-> TRUE, addresses |-> sovereigns]
               ELSE [ok |-> FALSE, addresses |-> <<>>]

\* keyN.first once the loop has run: the recovered key of layer n if it is
\* one of the sovereign addresses, the default address otherwise.
LayerKey(fluidSovereigns, n) ==
    IF signer[n] # NoKey /\ \E i \in DOMAIN fluidSovereigns : fluidSovereigns[i] = signer[n]
      THEN signer[n] ELSE NoKey

\* Fault variant: the distinctness test leaves out keyOne != keyThree.
DistinctKeysTwoTests(k) == k[1] # k[2] /\ k[2] # k[3]

\* fValid: the three layer keys are pairwise different.
DistinctKeys(k) == k[1] # k[2] /\ k[2] # k[3] /\ k[1] # k[3]

CheckSignatureQuorum(individual) ==
    LET last  == GetLastFluidSovereignAddressStrings
        key   == [n \in Layers |-> LayerKey(last.addresses, n)]
        found == [n \in Layers |-> key[n] # NoKey]    \* keyN.second
    IN CASE ~last.ok                                              -> FALSE
         [] \E i \in DOMAIN last.addresses : last.addresses[i] = BadAddress -> FALSE
         [] individual                          -> \E n \in Layers : found[n]
         [] DistinctKeys(key)                   -> \A n \in Layers : found[n]
         [] OTHER                               -> FALSE

(***************************************************************************)
(* The database helpers.                                                   *)
(***************************************************************************)

\* CDebitAddress::IsValid() of an address string.
IsValidAddress(a) == a \in Keys

\* Fault variant of IsSovereignAddress: the loop returns the comparison
\* with the first entry instead of looking further.
IsSovereignAddressFirstOnly(inputAddress) ==
    /\ IsValidAddress(inputAddress)
    /\ dbReady
    /\ IsValidAddress(sovereigns[1]) /\ sovereigns[1] = inputAddress

\* IsSovereignAddress (the RPC lookup): the input is valid and is one of
\* the valid addresses of the last sovereign record; invalid entries of the
\* record are skipped.
IsSovereignAddress(inputAddress) ==
    /\ IsValidAddress(inputAddress)
    /\ dbReady
    /\ \E i \in DOMAIN sovereigns :
          IsValidAddress(sovereigns[i]) /\ sovereigns[i] = inputAddress

(***************************************************************************)
(* Every sovereign record and every outcome of the three recoveries.       *)
(***************************************************************************)

Init ==
    /\ dbReady \in BOOLEAN
    /\ sovereigns \in [1..SOVEREIGNS -> Keys \cup {BadAddress}]
    /\ signer \in [Layers -> Keys \cup {NoKey}]

\* The check is a pure function of its inputs.
Evaluate == UNCHANGED vars

Spec == Init /\ [][Evaluate]_vars

Symmetry == Permutations(Keys)

(***************************************************************************)
(* Properties.                                                             *)
(***************************************************************************)

\* The comment of CheckSignatureQuorum: a token is accepted when 3 of the 5
\* sovereign addresses signed it. With a readable record of valid
\* addresses, the check accepts exactly when the three layers were signed by
\* three different sovereigns (and, for an individual check, when one layer
\* was); it fails closed when the record is missing or holds a bad address.
QuorumIsThreeDistinctSovereigns ==
    LET listed == {sovereigns[i] : i \in DOMAIN sovereigns}
        signedBy == {signer[n] : n \in Layers} \cap listed
    IN IF dbReady /\ BadAddress \notin listed
         THEN /\ CheckSignatureQuorum(FALSE) = (Cardinality(signedBy) = 3)
              /\ CheckSignatureQuorum(TRUE) = (signedBy # {})
         ELSE ~CheckSignatureQuorum(FALSE) /\ ~CheckSignatureQuorum(TRUE)


\* The RPC and the consensus check agree on who is a sovereign: every key
\* whose signature CheckSignatureQuorum counts, for an individual or a 3-of-5
\* check, is reported a sovereign by IsSovereignAddress. (The converse does
\* not hold: IsSovereignAddress skips an invalid entry of the record, while
\* CheckSignatureQuorum rejects the whole record.)
SovereignSignersReported ==
    /\ CheckSignatureQuorum(TRUE) => \E n \in Layers : IsSovereignAddress(signer[n])
    /\ CheckSignatureQuorum(FALSE) => \A n \in Layers : IsSovereignAddress(signer[n])

=============================================================================
