--------------------------- MODULE ProfileEditors ---------------------------
(***************************************************************************)
(* The profile pages of the three roles.  A seller's and a partner's show    *)
(* their form once the profile has come; a client's shows what the session   *)
(* knows and replaces it when the profile comes.  SAVE CHANGES sends          *)
(* nothing: the page only says that the changes were captured.               *)
(***************************************************************************)
EXTENDS Naturals, Sequences, FiniteSets, SequencesExt

CONSTANTS
  Zips,     \* codes that may be typed into the box of serviceable codes
  Served,   \* the codes a partner's profile comes with, listed twice or not
  Nobody,   \* no editor
  MaxPicks  \* bound: pictures picked during one visit

ASSUME ZipsAssumption ==
  Served \in Seq(Zips) /\ Zips \cap {"", " "} = {}
ASSUME PicksAssumption == MaxPicks \in Nat
ASSUME NobodyAssumption == Nobody \notin {"client", "seller", "partner"}

VARIABLES
  editor, stage,      \* whose page it is; loading, failed or form
  waiting,            \* the profile has not come
  entries,            \* the fields: what the session had, the profile has, or typed
  zips, draft, inBox, \* chips, the text behind them, whether it has the focus
  saved,
  photo, urls, picks  \* the picture shown (0: the default), object URLs not revoked

profile == <<entries, waiting, stage>>
chips == <<zips, draft, inBox>>
pictures == <<photo, urls, picks>>
desk == <<editor, profile, chips, saved, pictures>>

PERSONAL == {"fullName", "email"}
SECURITY == {"currentPassword", "newPassword", "confirmPassword"}

ProfileFields == [
  client |-> PERSONAL \cup SECURITY,
  seller |-> PERSONAL \cup SECURITY \cup {"zip"},
  partner |-> PERSONAL \cup SECURITY \cup {"baseZip", "capacity"}]

Initially(r, source) == [f \in ProfileFields[r] |-> IF f \in SECURITY THEN "" ELSE source]

\* A page appears.  Without an editor nothing else of it is there.
Opened(r) ==
  /\ editor = r /\ waiting = (r # Nobody)
  /\ stage = (IF r = "client" THEN "form" ELSE "loading")
  /\ entries = (IF r = "client" THEN Initially(r, "session") ELSE <<>>)
  /\ zips = <<>> /\ draft = "" /\ inBox = FALSE
  /\ saved = FALSE
  /\ photo = 0 /\ urls = {} /\ picks = 0

-----------------------------------------------------------------------------
(* What is on the page *)

ClientControls == {"photo", "save", "cancel"} \cup ProfileFields.client

\* The other two pages have their form once the profile is there, and only a
\* message before and instead.
SellerControls ==
  IF stage # "form" THEN {} ELSE {"photo", "save", "cancel"} \cup ProfileFields.seller

PartnerControls ==
  IF stage # "form" THEN {}
  ELSE {"photo", "save", "cancel", "zip box"} \cup ProfileFields.partner
       \cup {c \in {"x"} : zips # <<>>}

\* The box of the codes has to lose the focus before another control is used.
Usable(c) ==
  /\ ~inBox
  /\ CASE editor = "client" -> c \in ClientControls
       [] editor = "seller" -> c \in SellerControls
       [] editor = "partner" -> c \in PartnerControls
       [] OTHER -> FALSE

-----------------------------------------------------------------------------
(* The profile *)

\* Mutant: the client's passwords are reset along with the profile.
ClientLoaded_All ==
  /\ editor = "client" /\ waiting
  /\ waiting' = FALSE
  /\ entries' = Initially("client", "profile")
  /\ UNCHANGED <<editor, stage, chips, saved, pictures>>

\* "Only overwrite the two schema fields."
ClientLoaded ==
  /\ editor = "client" /\ waiting
  /\ waiting' = FALSE
  /\ entries' = [f \in DOMAIN entries |-> IF f \in PERSONAL THEN "profile" ELSE entries[f]]
  /\ UNCHANGED <<editor, stage, chips, saved, pictures>>

\* What is captured and shown belongs to one mounted form, seeded from the answer.
SellerLoaded ==
  /\ editor = "seller" /\ waiting
  /\ waiting' = FALSE /\ stage' = "form"
  /\ entries' = Initially("seller", "profile")
  /\ UNCHANGED <<editor, chips, saved, pictures>>

PartnerLoaded ==
  /\ editor = "partner" /\ waiting
  /\ waiting' = FALSE /\ stage' = "form"
  /\ entries' = Initially("partner", "profile") /\ zips' = Served
  /\ UNCHANGED <<editor, draft, inBox, saved, pictures>>

\* The client's page says nothing of it, the others nothing else.
LoadFails ==
  /\ waiting /\ waiting' = FALSE
  /\ stage' = IF editor = "client" THEN stage ELSE "failed"
  /\ UNCHANGED <<editor, entries, chips, saved, pictures>>

-----------------------------------------------------------------------------
(* The form *)

Edit(f) ==
  /\ Usable(f)
  /\ entries' = [entries EXCEPT ![f] = "typed"]
  /\ saved' = FALSE
  /\ UNCHANGED <<editor, waiting, stage, chips, pictures>>

\* Enter in a field, or the button; the client's handler does nothing.
Save ==
  /\ Usable("save") /\ editor # "client"
  /\ saved' = TRUE
  /\ UNCHANGED <<editor, profile, chips, pictures>>

PickPhoto ==
  /\ Usable("photo") /\ picks < MaxPicks
  /\ picks' = picks + 1 /\ photo' = picks'
  /\ urls' = (urls \ {photo}) \cup {picks'}
  /\ UNCHANGED <<editor, profile, chips, saved>>

\* [CANCEL] and every other way off the page revoke the URL.
Close ==
  /\ editor # Nobody /\ editor' = Nobody
  /\ urls' = urls \ {photo} /\ photo' = 0
  /\ stage' = "loading" /\ waiting' = FALSE /\ entries' = <<>>
  /\ zips' = <<>> /\ draft' = "" /\ inBox' = FALSE /\ saved' = FALSE
  /\ UNCHANGED picks

-----------------------------------------------------------------------------
(* The chips: the box trims what is typed and takes a trailing comma off. *)

Clean(d) == IF d \in {"", " "} THEN "" ELSE d

\* Mutant: what is in the box already is added again.
Commit_Twice ==
  IF Clean(draft) = "" THEN UNCHANGED <<zips, draft, saved>>
  ELSE zips' = Append(zips, Clean(draft)) /\ saved' = FALSE /\ draft' = ""

Commit ==
  IF Clean(draft) = "" THEN UNCHANGED <<zips, draft, saved>>
  ELSE /\ IF Clean(draft) \in Range(zips) THEN UNCHANGED <<zips, saved>>
          ELSE zips' = Append(zips, Clean(draft)) /\ saved' = FALSE
       /\ draft' = ""

FocusBox ==
  /\ Usable("zip box") /\ inBox' = TRUE
  /\ UNCHANGED <<editor, profile, zips, draft, saved, pictures>>

TypeZip ==
  /\ inBox /\ \E d \in Zips \cup {"", " "} : draft' = d
  /\ UNCHANGED <<editor, profile, zips, inBox, saved, pictures>>

\* Enter and comma.
CommitKey ==
  /\ inBox /\ Commit
  /\ UNCHANGED <<editor, profile, inBox, pictures>>

BackspaceKey ==
  /\ inBox /\ draft = "" /\ zips # <<>>
  /\ zips' = Front(zips) /\ saved' = FALSE
  /\ UNCHANGED <<editor, profile, draft, inBox, pictures>>

BlurBox ==
  /\ inBox /\ inBox' = FALSE
  /\ Commit
  /\ UNCHANGED <<editor, profile, pictures>>

\* The "x" of a chip: the others stay, in their order.
RemoveChip(z) ==
  /\ Usable("x") /\ z \in Range(zips)
  /\ \E n \in 0..Len(zips) : \E at \in [1..n -> DOMAIN zips] :
       /\ Range(at) = {i \in DOMAIN zips : zips[i] # z}
       /\ \A k, l \in 1..n : k < l => at[k] < at[l]
       /\ zips' = [k \in 1..n |-> zips[at[k]]]
  /\ saved' = FALSE
  /\ UNCHANGED <<editor, profile, draft, inBox, pictures>>

EditorNext ==
  \/ ClientLoaded \/ SellerLoaded \/ PartnerLoaded \/ LoadFails
  \/ \E f \in DOMAIN entries : Edit(f)
  \/ Save \/ PickPhoto \/ Close
  \/ FocusBox \/ TypeZip \/ CommitKey \/ BackspaceKey \/ BlurBox
  \/ \E z \in Zips : RemoveChip(z)

-----------------------------------------------------------------------------
(* Properties *)

\* "Password boxes stay local, must survive mid-edit": what was typed is kept
\* as long as the page is there, unless it is a client's name or address that
\* the profile overtakes; and so is the code in the box when it loses the
\* focus.  While the page says that changes were captured, it shows those.
TypedIsKept ==
  [][editor' = editor =>
       /\ \A f \in DOMAIN entries :
            entries[f] = "typed" /\ entries'[f] # "typed" =>
              editor = "client" /\ waiting /\ f \in PERSONAL
       /\ inBox /\ ~inBox' => Clean(draft) \in Range(zips') \cup {""}
       /\ saved /\ saved' => UNCHANGED <<entries, zips>>]_desk

Repeated(s) == {z \in Range(s) : \E i, j \in DOMAIN s : i # j /\ s[i] = z /\ s[j] = z}

\* "Duplicates ignored": the chips, which the page tells apart by their text,
\* are all different but for the codes that the profile came with more than
\* once.  "Avoids leaking blobs across multiple picks": there is one object URL
\* at a time, the one the picture shows, and none once the page is gone.
ChipsAndPicture ==
  /\ Repeated(zips) \subseteq Repeated(Served)
  /\ urls = IF editor = Nobody THEN {} ELSE {photo} \ {0}

\* All different, whatever the profile came with.
ChipsDiffer == IsInjective(zips)
=============================================================================
