---------------------------- MODULE MCApproval ----------------------------
(* A call c1 of Approve against a relay whose table holds a single request *)
(* and another client, c2, that registers, hears nothing back and gives    *)
(* up: its request takes c1's place in the table, or the other way round,  *)
(* until it is swept or lost in a restart.  Requests expire before and     *)
(* after the caller's timeout.                                             *)
EXTENDS TailscaleApproval

CONSTANTS c1, c2

GivesUp(c) == Begin(c) \/ RegisterError(c) \/ RelayRegister(c) \/ LoseRegister(c)

BusyNext ==
    \/ CallNext(c1) \/ RelayNext(c1)
    \/ GivesUp(c2)
    \/ RelaySweep
    \/ RelayRestart
    \/ Tick

BusySpec == Init /\ [][BusyNext]_vars /\ Fairness
===========================================================================
