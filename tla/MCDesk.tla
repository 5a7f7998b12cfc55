------------------------------- MODULE MCDesk -------------------------------
(* Instances of the forms and the profile editors for TLC. *)
EXTENDS Desk, TLC

Word == <<"word">>
Five == <<"five">>
Mail == <<"address">>

\* Sign-up keeps a code that was listed twice.
MCServed == <<"10001", "10001">>

MCAutofilled ==
  [f \in {"name", "username", "clientEmail", "password"} |-> IF f = "clientEmail" THEN Mail ELSE Word]

MCTyped == [
  login    |-> [email |-> {Mail}, password |-> {Word}],
  client   |-> [username |-> {Word}, email |-> {Mail}, password |-> {Word, Five}, confirm |-> {Word}],
  partner  |-> [name |-> {Word}, email |-> {Mail}, baseZip |-> {Five}, capacity |-> {Five, <<"nought">>},
                serviceZips |-> {<<"", "">>, <<"five", "word">>}, password |-> {Word}, confirm |-> {Word}],
  seller   |-> [name |-> {Word}, email |-> {Mail, Word}, zip |-> {Five, <<"five", "five">>},
                password |-> {Word}, confirm |-> {Word}],
  submit   |-> [content |-> {Word, <<"long">>}, weight |-> {Five, <<"thirty">>}, destination |-> {Five, Word},
                clientEmail |-> {Mail}, clientPhone |-> {Blank}],
  track    |-> [shipmentId |-> {Blank, Word, Five}]]
=============================================================================
