--------------------------- MODULE MCAcrossBridge ---------------------------
(* Two intents through the hook, sound and unsound commitments, every quote   *)
(* and deadline on the clock's range and one tick past it.                    *)
EXTENDS AcrossBridge

Sound(recipient, min) ==
    [chain |-> 10, outputToken |-> "usdc", recipient |-> recipient, minOutput |-> min]

MCCommitments ==
    { Sound("alice", 1), Sound("bob", 2),
      [Sound("alice", 0) EXCEPT !.chain = 0],
      [Sound("alice", 0) EXCEPT !.outputToken = "zero"],
      [Sound("zero", 0) EXCEPT !.outputToken = "usdc"] }

MCSpec == BridgeInit /\ [][BridgeNext(0..(MaxTime + 1))]_vars
=============================================================================
