-------------------------- MODULE TransferPromise --------------------------
(***************************************************************************)
(* What the server promises about a reviewed intent, whatever network it   *)
(* is for and however often it is submitted, looked up or forgotten by a   *)
(* process: its transaction is committed to once, goes out at most once,   *)
(* and the intent ends with the verdict of the chain or not at all.        *)
(***************************************************************************)
EXTENDS Naturals

CONSTANT Intents

VARIABLES phase,    \* [Intents -> "open" | "out" | "confirmed" | "failed"]
          sends,    \* [Intents -> Nat]
          verdict   \* [Intents -> "none" | "success" | "reverted"], the chain's

vars == <<phase, sends, verdict>>

Init ==
    /\ phase = [i \in Intents |-> "open"]
    /\ sends = [i \in Intents |-> 0]
    /\ verdict = [i \in Intents |-> "none"]

Commit(i) ==
    /\ phase[i] = "open"
    /\ phase' = [phase EXCEPT ![i] = "out"]
    /\ UNCHANGED <<sends, verdict>>

Send(i) ==
    /\ phase[i] = "out" /\ sends[i] = 0
    /\ sends' = [sends EXCEPT ![i] = 1]
    /\ UNCHANGED <<phase, verdict>>

Land(i) ==
    /\ sends[i] = 1 /\ verdict[i] = "none"
    /\ \E v \in {"success", "reverted"} : verdict' = [verdict EXCEPT ![i] = v]
    /\ UNCHANGED <<phase, sends>>

Conclude(i) ==
    /\ phase[i] = "out"
    /\ \/ /\ verdict[i] = "success"
          /\ phase' = [phase EXCEPT ![i] = "confirmed"]
       \/ /\ verdict[i] = "reverted"
          /\ phase' = [phase EXCEPT ![i] = "failed"]
    /\ UNCHANGED <<sends, verdict>>

Next == \E i \in Intents : Commit(i) \/ Send(i) \/ Land(i) \/ Conclude(i)

Spec == Init /\ [][Next]_vars
=============================================================================
