------------------------------ MODULE VaultLog ------------------------------
(***************************************************************************)
(* What the server promises about a vault (docs/REVISION_CONTRACT.md): its *)
(* history only grows, one revision at a time, and an operation enters it  *)
(* at most once, however often it is sent.                                 *)
(***************************************************************************)
EXTENDS Naturals, Sequences

CONSTANTS Vaults, Operations, Payloads

VARIABLE history   \* history[v]: the commits of v, [operation, payload]

Entries == [operation : Operations, payload : Payloads]

Init == history = [v \in Vaults |-> <<>>]

IsRecorded(v, operation) ==
  \E r \in 1 .. Len(history[v]) : history[v][r].operation = operation

Record(v, entry) ==
  /\ history' = [history EXCEPT ![v] = Append(@, entry)]
  /\ ~IsRecorded(v, entry.operation)

Next == \E v \in Vaults, entry \in Entries : Record(v, entry)

Spec == Init /\ [][Next]_history
=============================================================================
