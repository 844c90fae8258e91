--------------------------- MODULE VerifierRouter ---------------------------
(***************************************************************************)
(* The verifier router, which finds the verifier of a seal by the selector *)
(* in front of it, and the emergency stops around the verifiers.  Calls    *)
(* that revert change nothing and are not modelled as steps; the owners    *)
(* may make any call at any time.                                          *)
(***************************************************************************)
EXTENDS Naturals

CONSTANTS
  Selectors,         \* selectors of seals
  Implementations,   \* verifiers, each behind an emergency stop of its own
  UNSET,             \* address 0: the entry has never been set
  TOMBSTONE          \* address 1: the entry has been removed

ASSUME EntriesDiffer ==
  UNSET # TOMBSTONE /\ UNSET \notin Implementations /\ TOMBSTONE \notin Implementations

VARIABLES
  verifiers,         \* the entry of every selector
  paused             \* the implementations that have been stopped

routerVars == <<verifiers, paused>>

(* The tombstone can be added by hand for a selector never set, and adding *)
(* the address 0 changes nothing.                                          *)
AddVerifier(selector, verifier) ==
  /\ verifiers[selector] = UNSET
  /\ verifiers' = [verifiers EXCEPT ![selector] = verifier]
  /\ UNCHANGED paused

(* The entry is cleared. *)
RemoveVerifierClearing(selector) ==
  /\ verifiers[selector] # UNSET
  /\ verifiers' = [verifiers EXCEPT ![selector] = UNSET]
  /\ UNCHANGED paused

RemoveVerifier(selector) ==
  /\ verifiers[selector] # UNSET
  /\ verifiers' = [verifiers EXCEPT ![selector] = TOMBSTONE]
  /\ UNCHANGED paused

(* The call of the guardian, and the call of anyone with a receipt for a   *)
(* claim of zeroes that verifies: each pauses what is not yet paused.      *)
Estop(verifier) ==
  /\ verifier \notin paused
  /\ paused' = paused \cup {verifier}
  /\ UNCHANGED verifiers

(* verify: the entry is looked up, and must be neither unset nor removed   *)
(* nor stopped.                                                            *)
Verifies(selector) == verifiers[selector] \in Implementations \ paused

RouterNext ==
  \/ \E s \in Selectors, v \in Implementations \cup {TOMBSTONE} : AddVerifier(s, v)
  \/ \E s \in Selectors : RemoveVerifier(s)
  \/ \E v \in Implementations : Estop(v)

-----------------------------------------------------------------------------
(* A selector that has been removed, or whose verifier has been stopped. *)
Dead(selector) ==
  verifiers[selector] = TOMBSTONE \/ verifiers[selector] \in paused

(* A selector that is dead stays dead: no sequence of the owners' calls    *)
(* makes its seals verify again (removeVerifier, addVerifier and estop).   *)
DeadStaysDead == [][\A s \in Selectors : Dead(s) => Dead(s)']_routerVars
=============================================================================
