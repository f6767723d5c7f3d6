----------------------------- MODULE FileStore -----------------------------
(***************************************************************************)
(* What a file system with one writer promises: files that read back what  *)
(* was written to them, and a stored copy that follows.  live is what the  *)
(* program sees, prev what it saw before the change that is on its way to  *)
(* the stored copy, and stored what it finds after a power loss.           *)
(***************************************************************************)
EXTENDS Integers, Sequences

CONSTANTS Path, Unit, Absent, Dir, Torn

VARIABLES live, prev, stored

vars == <<live, prev, stored>>

IsFile(c) == c \notin {Absent, Dir, Torn}

Init == live = [p \in Path |-> Absent] /\ prev = live /\ stored = live

Put(p, c) ==
  /\ live' = [live EXCEPT ![p] = c]
  /\ prev' \in {live, live'}
  /\ UNCHANGED stored

Create(p) == live[p] = Absent /\ Put(p, <<>>)
MakeDir(p) == live[p] = Absent /\ Put(p, Dir)
Empty(p)  == IsFile(live[p]) /\ Put(p, <<>>)
Remove(p) == live[p] # Absent /\ Put(p, Absent)

(* A file is cut, or written over from some unit of it on; nothing else of *)
(* it changes and no other file does.                                      *)
Cut(p) ==
  /\ IsFile(live[p])
  /\ \E n \in 0..Len(live[p]) : Put(p, SubSeq(live[p], 1, n))

Overwrite(p) ==
  /\ IsFile(live[p]) /\ IsFile(live'[p])
  /\ LET old == live[p]
         new == live'[p]
     IN /\ Len(new) >= Len(old)
        /\ \E from \in 1 .. Len(old) + 1 : \E to \in from - 1 .. Len(new) :
             \A i \in 1..Len(new) :
               IF i \in from..to THEN new[i] \in Unit
                                 ELSE i <= Len(old) /\ new[i] = old[i]
        /\ Put(p, new)

(* The stored copy of one file catches up.  On the way it may mix what it  *)
(* had with what the program sees or last saw, unit by unit; it may be an  *)
(* empty file while a file comes or goes or a directory is made; and it is *)
(* torn while a file loses clusters.                                       *)
At(c, i) == IF IsFile(c) THEN IF i <= Len(c) THEN {c[i]} ELSE {} ELSE {}

Mixes(c, p) ==
  /\ IsFile(c) /\ IsFile(stored[p]) /\ IsFile(live[p])
  /\ Len(c) = Len(stored[p])
  /\ \A i \in 1..Len(c) : c[i] \in At(stored[p], i) \cup At(prev[p], i) \cup At(live[p], i)

Store(p) ==
  /\ UNCHANGED live
  /\ prev' \in {prev, live}
  /\ LET c == stored'[p] IN
       \/ c = live[p]
       \/ Mixes(c, p)
       \/ c = <<>> /\ live[p] \in {Absent, Dir}
       \/ /\ c = Torn /\ stored[p] \notin {Absent, <<>>} /\ live[p] # Dir
          /\ IsFile(live[p]) /\ IsFile(stored[p]) => Len(live[p]) < Len(stored[p])
  /\ stored' = [stored EXCEPT ![p] = stored'[p]]

PowerLoss == live' = stored /\ prev' = stored /\ UNCHANGED stored

Next ==
  \/ \E p \in Path : Create(p) \/ MakeDir(p) \/ Empty(p) \/ Remove(p)
                     \/ Cut(p) \/ Overwrite(p) \/ Store(p)
  \/ PowerLoss

Spec == Init /\ [][Next]_vars
=============================================================================
