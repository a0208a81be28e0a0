----------------------------- MODULE MinerDevice -----------------------------
(***************************************************************************)
(* What the miner promises to its host, independent of interrupts, timers  *)
(* and chip: it works on one work unit at a time, and ends it with a nonce *)
(* of that unit, with nothing after its deadline, or because it was told   *)
(* to.  Only a unit in work yields a result.  Firmware implements this.    *)
(***************************************************************************)
CONSTANTS Work, NoWork, NoNonce,
          Golden(_)   \* the nonces that solve a work unit
VARIABLES worktask, state

dvars == <<worktask, state>>

Init ==
  /\ worktask = NoWork
  /\ state = [state |-> "R", nonce_valid |-> FALSE, nonce |-> NoNonce]

\* 'W': a new unit replaces whatever was in work.
Start(w) ==
  /\ worktask' = w
  /\ state' = [state |-> "W", nonce_valid |-> FALSE, nonce |-> NoNonce]

\* The unit in work is solved.
Found(n) ==
  /\ state.state = "W"
  /\ state' = [state |-> "R", nonce_valid |-> TRUE, nonce |-> n]
  /\ UNCHANGED worktask

\* The deadline of the unit in work has passed.
Exhausted ==
  /\ state.state = "W"
  /\ state' = [state |-> "R", nonce_valid |-> FALSE, nonce |-> NoNonce]
  /\ UNCHANGED worktask

\* 'R' and 'A': the unit is given up, the last result stays readable.
Abort ==
  /\ state' = [state EXCEPT !.state = "R"]
  /\ UNCHANGED worktask

Next ==
  \/ \E w \in Work : Start(w)
  \/ \E n \in Golden(worktask) : Found(n)
  \/ Exhausted
  \/ Abort

Spec == Init /\ [][Next]_dvars
=============================================================================
