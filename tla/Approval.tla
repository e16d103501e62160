----------------------------- MODULE Approval -----------------------------
(***************************************************************************)
(* What every approval scheme of the contracts promises: an item is asked  *)
(* for, then granted or refused once, and takes effect only after it was   *)
(* granted.  One step may decide, or put into effect, several items.       *)
(***************************************************************************)
EXTENDS Naturals

CONSTANT Items

VARIABLES phase,     \* "absent", "asked", "granted" or "refused"
          effects    \* how often the item took effect

approvalVars == <<phase, effects>>

Init ==
    /\ phase = [i \in Items |-> "absent"]
    /\ effects = [i \in Items |-> 0]

Move(S, from, to) ==
    /\ \A i \in S : phase[i] = from
    /\ phase' = [i \in Items |-> IF i \in S THEN to ELSE phase[i]]

Ask(S) == Move(S, "absent", "asked") /\ UNCHANGED effects
Grant(S) == Move(S, "asked", "granted") /\ UNCHANGED effects
Refuse(S) == Move(S, "asked", "refused") /\ UNCHANGED effects

(* Granting and acting may be one step: the last approval executes. *)
TakeEffect(S, T) ==
    /\ Move(S, "asked", "granted")
    /\ \A i \in T : phase'[i] = "granted"
    /\ \A i \in Items : IF i \in T THEN effects'[i] > effects[i]
                                   ELSE effects'[i] = effects[i]

Next == \E S, T \in SUBSET Items :
            Ask(S) \/ Grant(S) \/ Refuse(S) \/ TakeEffect(S, T)

Spec == Init /\ [][Next]_approvalVars
=============================================================================
