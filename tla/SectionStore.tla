----------------------------- MODULE SectionStore -----------------------------
(***************************************************************************)
(* What a power-fail-safe section system promises, independently of blocks *)
(* and free lists.  Sections are changed by calls; a call changes them at  *)
(* once, at some moment between its begin and its end, or not at all if it *)
(* is cut off.  Formatting is the exception: the sections are undefined    *)
(* until it has been completed, or the storage mounted again.              *)
(***************************************************************************)
CONSTANTS Names, Contents,
          Absent            \* the content of a section that does not exist

VARIABLES store,            \* the content of every section
          update,           \* what the call in progress is about to change
          usable,           \* sections can be opened
          formatting        \* formatting has begun, and has not been completed

storeVars == <<store, update, usable, formatting>>

(* No call in progress, or one that changes no section *)
Nothing == [n \in {} |-> Absent]

(* The sections s after the call *)
Result(s) == [n \in Names |-> IF n \in DOMAIN update THEN update[n] ELSE s[n]]

(* What the call may make of the sections s, if it is cut off *)
MayLeave(s, t) ==
  \/ t = s
  \/ t = Result(s)
  \/ formatting /\ t \in [Names -> Contents \cup {Absent}]

Init ==
  /\ store = [n \in Names |-> Absent]
  /\ update = Nothing
  /\ usable = TRUE
  /\ formatting = FALSE

(* A call of Create() and Close(), Delete() or Rename() begins. *)
Call ==
  /\ update = Nothing
  /\ \E names \in SUBSET Names : update' \in [names -> Contents \cup {Absent}]
  /\ UNCHANGED <<store, usable, formatting>>

Format ==
  /\ update = Nothing /\ ~usable
  /\ update' = [n \in Names |-> Absent]
  /\ formatting' = TRUE
  /\ UNCHANGED <<store, usable>>

Progress ==
  /\ MayLeave(store, store')
  /\ UNCHANGED <<update, usable, formatting>>

(* The call returns: all of its changes are made. *)
Return ==
  /\ update # Nothing
  /\ store' = Result(store)
  /\ update' = Nothing
  /\ usable' = TRUE
  /\ formatting' = FALSE

(* A power failure, or an error of the storage device *)
Fail ==
  /\ MayLeave(store, store')
  /\ update' = Nothing
  /\ usable' = FALSE
  /\ UNCHANGED formatting

(* The storage is mounted after formatting was cut off. *)
Salvage ==
  /\ formatting /\ update = Nothing
  /\ MayLeave(store, store')
  /\ usable' = TRUE
  /\ formatting' = FALSE
  /\ UNCHANGED update

(* Mounting and unmounting *)
Switch ==
  /\ update = Nothing
  /\ usable' \in BOOLEAN
  /\ UNCHANGED <<store, update, formatting>>

Next ==
  \/ Call
  \/ Format
  \/ Progress
  \/ Return
  \/ Fail
  \/ Salvage
  \/ Switch

Spec == Init /\ [][Next]_storeVars
=============================================================================
