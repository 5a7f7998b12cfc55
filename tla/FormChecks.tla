----------------------------- MODULE FormChecks -----------------------------
(***************************************************************************)
(* What the forms of the application say of their fields before anything is  *)
(* sent, and what they send.  A text is the sequence of what stands between  *)
(* its commas, without surrounding blanks: an amount, an address, some word,  *)
(* or nothing.                                                               *)
(***************************************************************************)
EXTENDS Integers, Sequences, Functions

CONSTANTS None, NaN

ASSUME NaNAssumption == NaN \notin Int

Roles == {"client", "seller", "partner"}

Dashboard ==
  [client |-> "client dashboard", seller |-> "seller dashboard", partner |-> "partner dashboard"]

\* What takes a session to see.
Protected == {Dashboard[r] : r \in Roles} \cup {"submit"}

Fields == [
  login    |-> {"email", "password"},
  client   |-> {"username", "email", "password", "confirm"},
  partner  |-> {"name", "email", "baseZip", "capacity", "serviceZips", "password", "confirm"},
  seller   |-> {"name", "email", "zip", "password", "confirm"},
  submit   |-> {"content", "weight", "destination", "clientEmail", "clientPhone"},
  track    |-> {"shipmentId"}]

Forms == DOMAIN Fields

Optional == {"clientPhone"}

\* The amounts that may be typed: 30 is more than any parcel weighs.
Amount == [nought |-> 0, five |-> 5, thirty |-> 30]

Blank == <<>>

Digits(t) == Len(t) = 1 /\ t[1] \in DOMAIN Amount

Number(t) == IF t = Blank THEN 0 ELSE IF Digits(t) THEN Amount[t[1]] ELSE NaN

zipList(t) == {z \in Range(t) : z # ""}

badZips(t) == \E z \in zipList(t) : ~Digits(<<z>>)

\* Mutant: only the first of the listed codes is looked at.
Malformed_First(form, v) ==
  CASE form = "partner" ->
         {f \in {"baseZip", "capacity"} : ~Digits(v[f])}
         \cup {f \in {"capacity"} : Number(v[f]) = 0}
         \cup {f \in {"serviceZips"} : v[f] # Blank /\ ~Digits(<<v[f][1]>>)}
    [] form = "seller" -> {f \in {"zip"} : ~Digits(v[f])}
    [] form = "submit" -> {f \in {"destination"} : ~Digits(v[f])}
         \cup {f \in {"weight"} : Number(v[f]) \in {NaN, 0, 30}}
    [] OTHER -> {}

\* Fields whose text is not of the kind they ask for.
Malformed(form, v) ==
  CASE form = "partner" ->
         {f \in {"baseZip", "capacity"} : ~Digits(v[f])}
         \cup {f \in {"capacity"} : Digits(v[f]) /\ Number(v[f]) < 1}
         \cup {f \in {"serviceZips"} : badZips(v[f])}
    [] form = "seller" -> {f \in {"zip"} : ~Digits(v[f])}
    [] form = "submit" ->
         {f \in {"destination"} : ~Digits(v[f])}
         \cup {f \in {"weight"} : ~Digits(v[f]) \/ Number(v[f]) \notin 1..25}
    [] OTHER -> {}

\* The two passwords of a sign-up, compared once both are there.
Mismatched(form, v) ==
  {f \in DOMAIN v \cap {"confirm"} :
     /\ v.password # Blank /\ v[f] # Blank
     /\ v.password # v[f]}

\* The fields that get a message: an empty one only that it is required.
Wrong(form, v, role) ==
  {f \in DOMAIN v \ Optional :
     v[f] = Blank \/ f \in Malformed(form, v) \cup Mismatched(form, v)}
  \cup {f \in {"accountType"} : form = "login" /\ role = None}

\* The columns a request fills that are more than some text.
Payload(form, v) ==
  CASE form = "client" -> [email |-> {v.email}]
    [] form = "seller" -> [email |-> {v.email}, zipcode |-> {Number(v.zip)}]
    [] form = "partner" ->
         [email |-> {v.email},
          zipcode |-> {Number(v.baseZip)}, max_handling_capacity |-> {Number(v.capacity)},
          serviceable_zip_codes |-> {Number(<<z>>) : z \in zipList(v.serviceZips)}]
    [] form = "submit" ->
         [content |-> {v.content}, client_contact_email |-> {v.clientEmail},
          destination |-> {Number(v.destination)}, weight |-> {Number(v.weight)}]
    [] OTHER -> <<>>

\* EmailStr; no form looks for one.
Address(t) == t = <<"address">>

\* More than the 100 characters of a content.
TooLong(t) == t = <<"long">>

\* The columns in which the schemas do not take what they get.
Refused(payload) ==
  {c \in DOMAIN payload :
     \/ NaN \in payload[c]
     \/ c = "weight" /\ \E w \in payload[c] : w > 25
     \/ c \in {"email", "client_contact_email"} /\ \E t \in payload[c] : ~Address(t)
     \/ c = "content" /\ \E t \in payload[c] : TooLong(t)}

Accepted(payload) == Refused(payload) = {}
=============================================================================
