---------------------------- MODULE CallContract ----------------------------
(***************************************************************************)
(* What the transport promises the booking service about one call,         *)
(* whatever happens to tokens, the network and the caller's context: the   *)
(* server executes the request at most once, and a call that reports       *)
(* success was executed.  A call that reports failure may or may not have  *)
(* been executed - a lost reply is the caller's to resolve - but the SDK   *)
(* never makes it happen twice.                                            *)
(***************************************************************************)
EXTENDS Naturals

CONSTANT Callers

VARIABLES
    status,     \* "idle", "pending" or "done": the caller's latest call
    executed,   \* how many times the server has executed it
    outcome     \* what the caller was told: "none", "ok" or "error"

contractVars == <<status, executed, outcome>>

Init ==
    /\ status = [c \in Callers |-> "idle"]
    /\ executed = [c \in Callers |-> 0]
    /\ outcome = [c \in Callers |-> "none"]

Begin(c) ==
    /\ status[c] # "pending"
    /\ status' = [status EXCEPT ![c] = "pending"]
    /\ executed' = [executed EXCEPT ![c] = 0]
    /\ outcome' = [outcome EXCEPT ![c] = "none"]

Execute(c) ==
    /\ status[c] = "pending"
    /\ executed[c] = 0
    /\ executed' = [executed EXCEPT ![c] = 1]
    /\ UNCHANGED <<status, outcome>>

Finish(c) ==
    /\ status[c] = "pending"
    /\ status' = [status EXCEPT ![c] = "done"]
    /\ \E o \in {"ok", "error"} :
          /\ o = "ok" => executed[c] = 1
          /\ outcome' = [outcome EXCEPT ![c] = o]
    /\ UNCHANGED executed

\* The caller turns to something that sends no request, such as a ping.
Forget(c) ==
    /\ status[c] = "done"
    /\ status' = [status EXCEPT ![c] = "idle"]
    /\ executed' = [executed EXCEPT ![c] = 0]
    /\ outcome' = [outcome EXCEPT ![c] = "none"]

Next == \E c \in Callers : Begin(c) \/ Execute(c) \/ Finish(c) \/ Forget(c)

Spec == Init /\ [][Next]_contractVars
=============================================================================
