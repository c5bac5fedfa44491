---------------------------- MODULE RemoteCalls ----------------------------
(***************************************************************************)
(* How a call to the API server or to AWS may end, as the controllers see  *)
(* it.  None of it is under src/.                                          *)
(***************************************************************************)
EXTENDS Naturals

CONSTANT MaxFaults  \* bound: failed calls, crashes, outside interference

ASSUME MaxFaultsAssumption == MaxFaults \in Nat

VARIABLE faults     \* how many faults there were

(* "lost" took effect although the caller sees an error.                   *)
Outcomes(accepted) ==
    IF accepted THEN {"ok"} \cup (IF faults < MaxFaults THEN {"failed", "lost"}
                                                        ELSE {})
                ELSE {"refused"}

TookEffect(o) == o \in {"ok", "lost"}

Charge(o) == faults' = IF o \in {"failed", "lost"} THEN faults + 1 ELSE faults
=============================================================================
