-------------------------- MODULE ConnectedProtocol --------------------------
(***************************************************************************)
(* What the server of owner-connected recovery and the host agent say to   *)
(* each other: connected-runner-protocol.ts.  Commands are numbered in the *)
(* order in which the server creates them.  Instance identifiers are       *)
(* random; here they are numbered in the order in which the instances of   *)
(* the service come up, and both sides compare them for equality only.     *)
(***************************************************************************)
EXTENDS Integers

CONSTANT MaxCommands   \* bound on the recovery commands

ASSUME MaxCommandsAssumption == MaxCommands \in Nat \ {0}

Command == 1..MaxCommands

\* A commandId or executionNonce that is not set.
NoCommand == 0

\* The instance of an unhealthy report or of a failed verification.
NoInstance == 0

\* previousCommandResult.  The verification is healthy if it has an instance.
Result(c, n, code, instance) ==
  [command |-> c, nonce |-> n, code |-> code, instance |-> instance]

ResultCode == {"restart_succeeded", "restart_failed"}

\* A code that is not set.
NoCode == "none"

NoResult == Result(NoCommand, NoCommand, NoCode, NoInstance)
=============================================================================
