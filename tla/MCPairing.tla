----------------------------- MODULE MCPairing -----------------------------
(* Requests are interchangeable.  What auth.tmp holds matters while some   *)
(* save has opened it and not renamed it: any other save begins by         *)
(* truncating it; the auth file matters while the properties or a restart  *)
(* read it.  Codes are tried without dropped saves; one dropped save with  *)
(* a fault, and two without, are tried without codes.                      *)
EXTENDS Pairing, TLC

MCStarts ==
    {[codes |-> 0, minted |-> 0, faults |-> 0, dropped |-> MaxLate],
     [codes |-> MaxCodes, minted |-> 0, faults |-> 0, dropped |-> MaxLate - 1],
     [codes |-> MaxCodes, minted |-> 1, faults |-> MaxFaults, dropped |-> 0]}

Symmetry == Permutations(Clients)

InUse == Under("write") \/ Under("rename")
            \/ \E c \in Clients : req[c].pc \in {"write", "rename"}
Read == store = "sound" \/ count.faults < MaxFaults
View == <<mem, IF Read THEN disk ELSE Empty, IF InUse THEN tmp ELSE Empty, late, store,
          lockVars, req, code, backoff, count, told>>
=============================================================================
