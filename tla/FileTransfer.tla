---------------------------- MODULE FileTransfer ----------------------------
(***************************************************************************)
(* What sending files over a line promises.  A stored file only ever grows *)
(* by the units that come next in the file being sent, the side that sends *)
(* reports a file as sent only when all of it is stored, and the side that *)
(* receives reports success only when no file is left stored in part.      *)
(***************************************************************************)
EXTENDS Integers, Sequences

CONSTANTS Name,     \* the files that may be sent
          Source    \* [Name -> the units of the file]

VARIABLES before,   \* [Name -> the units stored at first]
          stored,   \* [Name -> the units stored]
          sent,     \* [Name -> what the sender reports of the file]
          received  \* what the receiver reports at the end

vars == <<before, stored, sent, received>>

Untouched(f) == stored[f] = before[f]
Whole(f)     == stored[f] = Source[f]

Init ==
  /\ DOMAIN before = Name
  /\ stored = before
  /\ sent = [f \in Name |-> "none"]
  /\ received = "none"

Store(f) ==
  /\ received = "none"
  /\ \E n \in Len(stored[f]) + 1 .. Len(Source[f]) :
       /\ stored[f] = SubSeq(Source[f], 1, Len(stored[f]))
       /\ stored' = [stored EXCEPT ![f] = SubSeq(Source[f], 1, n)]
  /\ UNCHANGED <<before, sent, received>>

ReportSent(f, result) ==
  /\ sent[f] = "none"
  /\ result = "OK" => Whole(f)
  /\ sent' = [sent EXCEPT ![f] = result]
  /\ UNCHANGED <<before, stored, received>>

ReportReceived(result) ==
  /\ received = "none"
  /\ result = "OK" => \A f \in Name : Untouched(f) \/ Whole(f)
  /\ received' = result
  /\ UNCHANGED <<before, stored, sent>>

Next ==
  \/ \E f \in Name : Store(f)
  \/ \E f \in Name, result \in {"OK", "ERROR"} : ReportSent(f, result)
  \/ \E result \in {"OK", "ERROR"} : ReportReceived(result)

Spec == Init /\ [][Next]_vars
=============================================================================
