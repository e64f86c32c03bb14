--------------------------- MODULE FileLifecycle ---------------------------
(***************************************************************************)
(* What the file store promises its users, with no journal, no renames and *)
(* no processes: a file is published once its bytes are stored, goes to    *)
(* the recycle bin and back, and is gone for good only out of the bin or   *)
(* with its course; bytes never leave while the file is there.             *)
(***************************************************************************)
CONSTANTS Files, Courses, CourseOf, ShaOf

VARIABLES state,   \* "absent", "live", "binned" or "gone"
          bytes    \* files whose bytes are somewhere on disk

vars == <<state, bytes>>

There == {f \in Files : state[f] \in {"live", "binned"}}

\* No other live file of the course has the same content.
Unique(f) == \A g \in Files \ {f} :
               state[g] = "live" /\ CourseOf[g] = CourseOf[f] => ShaOf[g] # ShaOf[f]

Init == /\ state \in [Files -> {"absent", "live", "binned", "gone"}]
        /\ \A f \in Files : state[f] = "live" => Unique(f)
        /\ bytes \in {B \in SUBSET Files : There \subseteq B}

Store(f) == bytes' = bytes \cup {f} /\ state[f] = "absent" /\ UNCHANGED state
Unlink(f) == bytes' = bytes \ {f} /\ f \notin There /\ UNCHANGED state

Publish(f) == /\ state[f] = "absent" /\ f \in bytes /\ Unique(f)
              /\ state' = [state EXCEPT ![f] = "live"]
              /\ UNCHANGED bytes

Bin(f) == /\ state[f] = "live"
          /\ state' = [state EXCEPT ![f] = "binned"]
          /\ UNCHANGED bytes

Recover(f) == /\ state[f] = "binned" /\ Unique(f)
              /\ state' = [state EXCEPT ![f] = "live"]
              /\ UNCHANGED bytes

Remove(S) == /\ state' = [f \in Files |-> IF f \in S THEN "gone" ELSE state[f]]
             /\ UNCHANGED bytes

EmptyBin(S) == (\A f \in S : state[f] = "binned") /\ Remove(S)
DropCourse(c) == Remove({f \in There : CourseOf[f] = c})

Next == \/ \E f \in Files : \/ Store(f) \/ Unlink(f) \/ Publish(f)
                            \/ Bin(f) \/ Recover(f)
        \/ \E S \in SUBSET Files : EmptyBin(S)
        \/ \E c \in Courses : DropCourse(c)

Spec == Init /\ [][Next]_vars
=============================================================================
