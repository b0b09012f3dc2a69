--------------------------- MODULE AppendOnlyLog ---------------------------
(***************************************************************************)
(* What a session timeline promises: records are added at the end, a       *)
(* successful flush makes everything written so far durable, and a crash   *)
(* or a failed write takes away only records that are not durable.  Damage *)
(* to the medium takes away the records from the damaged one on, and is    *)
(* never mistaken for anything else.                                       *)
(***************************************************************************)
EXTENDS Naturals, Sequences

CONSTANT Payloads

VARIABLES
  log,      \* the payloads a reader of the timeline would get
  durable,  \* how many of them can no longer be lost
  damages   \* how often the medium was damaged

logVars == <<log, durable, damages>>

Init == log = <<>> /\ durable = 0 /\ damages = 0

Write == \E p \in Payloads : log' = Append(log, p) /\ UNCHANGED <<durable, damages>>

MakeDurable == durable' = Len(log) /\ UNCHANGED <<log, damages>>

Lose == \E n \in durable..Len(log) : log' = SubSeq(log, 1, n) /\ UNCHANGED <<durable, damages>>

Damage ==
  /\ damages' = damages + 1
  /\ \E n \in 0..Len(log) :
       /\ log' = SubSeq(log, 1, n)
       /\ durable' = IF durable <= n THEN durable ELSE n

Next == Write \/ MakeDurable \/ Lose \/ Damage

Spec == Init /\ [][Next]_logVars
=============================================================================
