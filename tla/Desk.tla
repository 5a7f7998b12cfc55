-------------------------------- MODULE Desk --------------------------------
(***************************************************************************)
(* A tab with a form or a profile editor.  The two share neither state nor   *)
(* requests: a behaviour follows a tab through the forms, or through one     *)
(* visit of an editor.                                                       *)
(***************************************************************************)
EXTENDS Forms, ProfileEditors

DeskInit == Init /\ \E r \in Roles \cup {Nobody} : Opened(r)

AtForms == editor = Nobody /\ picks = 0 /\ Next /\ UNCHANGED desk

AtEditor == EditorNext /\ UNCHANGED vars

DeskSpec == DeskInit /\ [][AtForms \/ AtEditor]_<<vars, desk>> /\ Fairness
=============================================================================
