------------------------------ MODULE Uploads -------------------------------
(***************************************************************************)
(* Uploaded pictures: image-upload.service.ts, the avatars and card backs  *)
(* of users and the face cards of the admin.  A picture is a file with a   *)
(* fixed name and a row that carries its address; the address ends in the  *)
(* time of the upload, here a number.  File and row are changed one after  *)
(* the other, by requests that hold no lock, and either may fail alone.    *)
(***************************************************************************)
EXTENDS Naturals

CONSTANTS Edits,       \* requests that may be under way at once
          NoFile,      \* no file, no address, no request
          MaxEdits     \* bound: requests of a behaviour

(* One picture of each sort: one user's avatar and card back, one face card. *)
Pictures == {"avatar", "back", "face"}

(* Requests under way, and what a running game keeps of a card back. *)
Upload == [what : {"upload"}, pic : Pictures, step : {"save"}, num : Nat \ {0}]
PictureRemoval == [what : {"remove"}, pic : Pictures, step : {"unlink", "clear", "read", "reset", "keep"}, num : {0}]
Choice == [what : {"choose"}, pic : {"choice"}, step : {"write"}, num : {0}]
GameCopy == [back : {"classic", "custom"}, link : Nat \cup {NoFile}]

ASSUME UploadsAssumption ==
  /\ MaxEdits \in Nat /\ NoFile \notin Nat
  /\ NoFile \notin Upload /\ NoFile \notin PictureRemoval /\ NoFile \notin Choice /\ NoFile \notin GameCopy

VARIABLES
  file,     \* the file of a picture: the number of the upload it is from
  link,     \* the address in the row of a picture: the same
  chosen,   \* cardBackId of the user: "classic" or "custom"
  edit,     \* request under way: [what, pic, step, num]
  uploads,  \* numbers given out
  edits,    \* requests left
  copy,     \* profiles:<game> of a running game: [back, link]
  mixed,    \* history: <<picture, "uploads" or "removal">>: two requests were about it
            \* at once, both uploads, or one of them a removal
  broken,   \* history: pictures a request failed half way through
  late      \* history: the custom back was chosen while it was being removed

uploadVars == <<file, link, chosen, edit, uploads, edits, copy, mixed, broken, late>>

-----------------------------------------------------------------------------
Active == {edit[r] : r \in Edits} \ {NoFile}

Begins(r, what) ==
  /\ edit[r] = NoFile /\ edits > 0
  /\ edits' = edits - 1
  /\ edit' = [edit EXCEPT ![r] = what]
  /\ mixed' = mixed \cup {<<q.pic, IF q.what = what.what /\ q.what = "upload" THEN "uploads" ELSE "removal">> :
                            q \in {a \in Active : a.pic = what.pic}}

Proceeds(r, step) == edit' = [edit EXCEPT ![r].step = step]
Finishes(r) == edit' = [edit EXCEPT ![r] = NoFile]
At(r, what, step) == edit[r] # NoFile /\ edit[r].what = what /\ edit[r].step = step

(* The row could not be written: the file is as it was left. *)
RowFails(r) ==
  /\ broken' = broken \cup {edit[r].pic}
  /\ Finishes(r)
  /\ UNCHANGED <<link, chosen, late>>

-----------------------------------------------------------------------------
(* processAndStore: a picture that can be decoded replaces the file; the other
   ones are refused and change nothing. *)
processAndStore(r, pic) ==
  /\ Begins(r, [what |-> "upload", pic |-> pic, step |-> "save", num |-> uploads + 1])
  /\ uploads' = uploads + 1
  /\ file' = [file EXCEPT ![pic] = uploads + 1]
  /\ UNCHANGED <<link, chosen, copy, broken, late>>

AvatarStores(r) == processAndStore(r, "avatar")
BackStores(r) == processAndStore(r, "back")

(* The same pipeline, written out a second time for the face cards. *)
FaceStores(r) == processAndStore(r, "face")

(* Then the row is given the new address: of the avatar, the card back, the card. *)
Saves(r, pic) ==
  /\ At(r, "upload", "save") /\ edit[r].pic = pic
  /\ \/ /\ link' = [link EXCEPT ![pic] = edit[r].num]
        /\ Finishes(r)
        /\ UNCHANGED <<chosen, broken, late>>
     \/ RowFails(r)
  /\ UNCHANGED <<file, uploads, edits, copy, mixed>>

(* A face card is only removed if it has a row. *)
FaceChecks(r) ==
  /\ link["face"] # NoFile
  /\ Begins(r, [what |-> "remove", pic |-> "face", step |-> "unlink", num |-> 0])
  /\ UNCHANGED <<file, link, chosen, uploads, copy, broken, late>>

RemovalBegins(r, pic) ==
  /\ pic # "face"
  /\ Begins(r, [what |-> "remove", pic |-> pic, step |-> "unlink", num |-> 0])
  /\ UNCHANGED <<file, link, chosen, uploads, copy, broken, late>>

(* The file goes; whether it was there or would not go makes no difference to
   what follows. *)
Unlinks(r) ==
  /\ At(r, "remove", "unlink")
  /\ Proceeds(r, IF edit[r].pic = "back" THEN "read" ELSE "clear")
  /\ \/ /\ file' = [file EXCEPT ![edit[r].pic] = NoFile]
        /\ UNCHANGED broken
     \/ /\ broken' = broken \cup {edit[r].pic}
        /\ UNCHANGED file
  /\ UNCHANGED <<link, chosen, uploads, edits, copy, mixed, late>>

(* Then the row: the address of an avatar is cleared, the row of a face card
   deleted, which fails when it is gone already. *)
Clears(r) ==
  LET pic == edit[r].pic
  IN  /\ At(r, "remove", "clear")
      /\ \/ /\ pic = "face" => link[pic] # NoFile
            /\ link' = [link EXCEPT ![pic] = NoFile]
            /\ Finishes(r)
            /\ UNCHANGED <<chosen, broken, late>>
         \/ RowFails(r)
      /\ UNCHANGED <<file, uploads, edits, copy, mixed>>

(* Of a card back it is read whether it is the chosen one ... *)
BackReads(r) ==
  /\ At(r, "remove", "read")
  /\ Proceeds(r, IF chosen = "custom" THEN "reset" ELSE "keep")
  /\ UNCHANGED <<file, link, chosen, uploads, edits, copy, mixed, broken, late>>

(* Mutant: the choice is not put back. *)
BackClears_Kept(r) ==
  /\ At(r, "remove", "reset") \/ At(r, "remove", "keep")
  /\ \/ /\ link' = [link EXCEPT !["back"] = NoFile]
        /\ Finishes(r)
        /\ late' = (late \/ \E q \in Active : q.what = "choose")
        /\ UNCHANGED <<chosen, broken>>
     \/ RowFails(r)
  /\ UNCHANGED <<file, uploads, edits, copy, mixed>>

(* ... and if so the choice is put back with the same write. *)
BackClears(r) ==
  /\ At(r, "remove", "reset") \/ At(r, "remove", "keep")
  /\ \/ /\ link' = [link EXCEPT !["back"] = NoFile]
        /\ chosen' = IF edit[r].step = "reset" THEN "classic" ELSE chosen
        /\ Finishes(r)
        /\ late' = (late \/ \E q \in Active : q.what = "choose")
        /\ UNCHANGED broken
     \/ RowFails(r)
  /\ UNCHANGED <<file, uploads, edits, copy, mixed>>

(* update of MeService: the custom back can only be chosen if it has an address;
   the choice is written afterwards. *)
ChooseChecks(r) ==
  /\ link["back"] # NoFile
  /\ Begins(r, [what |-> "choose", pic |-> "choice", step |-> "write", num |-> 0])
  /\ UNCHANGED <<file, link, chosen, uploads, copy, broken, late>>

ChooseWrites(r) ==
  /\ At(r, "choose", "write")
  /\ chosen' = "custom"
  /\ late' = (late \/ \E q \in Active : q.what = "remove" /\ q.step = "keep")
  /\ Finishes(r)
  /\ UNCHANGED <<file, link, uploads, edits, copy, mixed, broken>>

ChoosesClassic ==
  /\ chosen = "custom"
  /\ chosen' = "classic"
  /\ UNCHANGED <<file, link, edit, uploads, edits, copy, mixed, broken, late>>

(* loadProfilesForIds: a game keeps what the row says when it begins, or the
   default when the row cannot be read. *)
loadProfilesForIds ==
  /\ copy = NoFile
  /\ copy' \in {[back |-> chosen, link |-> link["back"]], [back |-> "classic", link |-> NoFile]}
  /\ UNCHANGED <<file, link, chosen, edit, uploads, edits, mixed, broken, late>>

GameGone ==
  /\ copy # NoFile
  /\ copy' = NoFile
  /\ UNCHANGED <<file, link, chosen, edit, uploads, edits, mixed, broken, late>>

-----------------------------------------------------------------------------
UploadsInit ==
  /\ file = [p \in Pictures |-> NoFile] /\ link = file
  /\ chosen = "classic" /\ edit = [r \in Edits |-> NoFile]
  /\ uploads = 0 /\ edits = MaxEdits
  /\ copy = NoFile /\ mixed = {} /\ broken = {} /\ late = FALSE

UploadsNext ==
  \/ \E r \in Edits : \/ AvatarStores(r) \/ BackStores(r) \/ FaceStores(r)
                      \/ \E pic \in Pictures : Saves(r, pic) \/ RemovalBegins(r, pic)
                      \/ FaceChecks(r) \/ Unlinks(r) \/ Clears(r)
                      \/ BackReads(r) \/ BackClears(r)
                      \/ ChooseChecks(r) \/ ChooseWrites(r)
  \/ ChoosesClassic \/ loadProfilesForIds \/ GameGone

UploadsSpec == UploadsInit /\ [][UploadsNext]_uploadVars
-----------------------------------------------------------------------------
Untouched(pic) == \A q \in Active : q.pic # pic

(* An address has a file, unless a removal met another request or failed half way:
   uploads alone, however they meet, only leave the address of the one with the
   file of the other.  Where nothing met, the address is that of the file. *)
LinksHold ==
  \A pic \in Pictures : Untouched(pic) /\ pic \notin broken /\ <<pic, "removal">> \notin mixed =>
    /\ (link[pic] = NoFile) <=> (file[pic] = NoFile)
    /\ <<pic, "uploads">> \in mixed \/ link[pic] = file[pic]

(* Who has chosen the custom back has one, unless it was chosen while it was
   being removed; and so has the copy a game was started with. *)
CustomThere ==
  /\ chosen = "custom" => late \/ link["back"] # NoFile
  /\ copy # NoFile => (copy.back = "custom" => late \/ copy.link # NoFile)

(* The two together: no row points to a picture that is gone
   (image-upload.service.ts and its callers). *)
FilesKept == LinksHold /\ CustomThere
=============================================================================
