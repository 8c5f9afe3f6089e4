---------------------------- MODULE SharedItems -----------------------------
(***************************************************************************)
(* What encrypted items promise the people who share them: every item has  *)
(* one current value and one set of readers.  Writing an item replaces     *)
(* both; a reader may share it, which adds one reader and leaves the value *)
(* alone.  Keys, rotations and re-encryptions do not appear.               *)
(*                                                                         *)
(* A value is named by the write that made it, so no write is ever undone. *)
(***************************************************************************)
CONSTANTS
  None,    \* an item not written yet
  User,
  Item,
  Value    \* the names of writes

VARIABLES
  content,   \* per item: its value and its readers, or None
  written    \* the values that any item ever had

svars == <<content, written>>

Init ==
  /\ content = [i \in Item |-> None]
  /\ written = {}

Write(i, v, readers) ==
  /\ v \notin written
  /\ written' = written \cup {v}
  /\ content' = [content EXCEPT ![i] = [value |-> v, readers |-> readers]]

Share(i, by, with) ==
  /\ content[i] # None
  /\ by \in content[i].readers
  /\ content' = [content EXCEPT ![i].readers = @ \cup {with}]
  /\ UNCHANGED written

Next ==
  \E i \in Item :
    \/ \E v \in Value, readers \in (SUBSET User) \ {{}} : Write(i, v, readers)
    \/ \E by, with \in User : Share(i, by, with)

Spec == Init /\ [][Next]_svars
=============================================================================
