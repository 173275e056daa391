------------------------------- MODULE FlagdUi -------------------------------
(***************************************************************************)
(* The editor of the feature flags: pages open in browsers, of the basic   *)
(* view (a select box for each flag) or of the advanced view (the file in  *)
(* a text area), the two routes of the server, and the file, which flagd   *)
(* watches.  A save sends the whole file.  The server opens the file,      *)
(* which empties it, and writes it in a later step.  After the answer the  *)
(* page reads the file twice: the effect that reads it runs when           *)
(* reloadData becomes true and again when the effect has set it to false.  *)
(***************************************************************************)
EXTENDS Naturals

CONSTANTS
  Basic, Advanced,   \* the pages open in each view
  Flags, Variants,
  Initial,           \* the file at first
  Length,            \* of the text of each configuration
  MaxSaves,          \* bound: saves of all pages
  MaxEdits           \* bound: edits on all pages

Pages == Basic \cup Advanced
Configs == [Flags -> Variants]

ASSUME FlagdUiAssumption ==
  /\ Basic \cap Advanced = {}
  /\ Initial \in Configs
  /\ Length \in [Configs -> Nat \ {0}]
  /\ MaxSaves \in Nat
  /\ MaxEdits \in Nat

VARIABLES
  file,      \* what the file holds
  version,   \* how many writes have ended
  save,      \* of each page: its saves at the server, and what they are to write
  reads,     \* of each page: its reads
  shown,     \* of each page: what it shows, and would save
  last,      \* of each page: what it read last
  marked,    \* of each advanced page: whether it says "Unsaved changes"
  spinner,   \* of each page: whether the spinner covers it
  schema,    \* of each page: the schemas it still asks for, and those it has
  saves,     \* saves begun
  edits,     \* edits made
  \* For the properties only:
  base,      \* of each page: the version that what it shows goes back to
  touched,   \* of each page: the flags the user changed since
  refused,   \* of each page: whether the last answer to a save was an error
  rash,      \* of each advanced page: whether its mark was set with a read under way,
             \* or taken away by the answer to a save that is older than what it shows
  broken,    \* of each page: whether it lost a call it waits for, or both schemas
  overlap,   \* whether two writes have overlapped
  cut        \* whether a write has ended after it had emptied the file

server == <<file, version, overlap, cut>>
page   == <<shown, last, marked, base, touched, rash>>
vars   == <<server, page, save, reads, spinner, schema, saves, edits, refused, broken>>

-----------------------------------------------------------------------------
\* What the file holds, and what a page shows.  flags is of no account in a kind
\* other than "config", except for its length in a torn file.
Content(kinds)  == [kind : kinds, flags : Configs]
Whole(c)        == [kind |-> "config", flags |-> c]
Blank(kind)     == [kind |-> kind, flags |-> Initial]

FileKinds == {"config", "null", "empty", "torn"}
PageKinds == {"config", "none", "error", "invalid"}

LengthOf(content) == IF content.kind \in {"config", "torn"} THEN Length[content.flags] ELSE 0

\* A file written over another that was not emptied: what is longer stays at the end.
Over(new, old) ==
  IF LengthOf(new) >= LengthOf(old) THEN new ELSE [kind |-> "torn", flags |-> old.flags]

\* Variant: what the file holds is not parsed.
AnsweredUnparsed(content) == content

\* What the route read-file answers: an error for what cannot be parsed.
Answered(content) ==
  IF content.kind = "config" THEN content
  ELSE IF content.kind = "null" THEN Blank("none") ELSE Blank("error")

NoSave == [at |-> "none", data |-> Blank("null"), base |-> 0, touched |-> {}, typed |-> FALSE]
NoRead == [at |-> "none", got |-> Blank("none"), version |-> 0]
SentRead == [NoRead EXCEPT !.at = "sent"]

ReadSlots == 1..3   \* bound: the reads of a page under way
SaveSlots == {1, 2}   \* bound: the saves of a page under way

\* Slots are alike, and the first one in a state is taken.
FirstRead(e, i, at) == reads[e][i].at = at /\ \A j \in ReadSlots : j < i => reads[e][j].at # at

Reading(e) == \E i \in ReadSlots : reads[e][i].at # "none"
Saving(e) == \E n \in SaveSlots : save[e][n].at # "none"

\* A page that has just been opened asks for the file and, in the advanced view, for
\* the schemas, with the spinner on.
Opened(e) == [i \in ReadSlots |-> IF i = 1 THEN SentRead ELSE NoRead]
Unasked(e) == [left |-> IF e \in Advanced THEN 2 ELSE 0, had |-> 0]

Init ==
  /\ file = Whole(Initial)
  /\ version = 0
  /\ save = [e \in Pages |-> [n \in SaveSlots |-> NoSave]]
  /\ reads = [e \in Pages |-> Opened(e)]
  /\ shown = [e \in Pages |-> Blank("none")]
  /\ last = [e \in Pages |-> Blank("none")]
  /\ marked = [e \in Pages |-> FALSE]
  /\ spinner = [e \in Pages |-> e \in Advanced]
  /\ schema = [e \in Pages |-> Unasked(e)]
  /\ saves = 0
  /\ edits = 0
  /\ base = [e \in Pages |-> 0]
  /\ touched = [e \in Pages |-> {}]
  /\ refused = [e \in Pages |-> FALSE]
  /\ rash = [e \in Pages |-> FALSE]
  /\ broken = [e \in Pages |-> FALSE]
  /\ overlap = FALSE
  /\ cut = FALSE

\* The basic view fails to render an answer without flags, and is gone.
Dead(e) == e \in Basic /\ shown[e].kind = "error"

-----------------------------------------------------------------------------
(* The server.                                                               *)

\* GET read-file: the file is read in one synchronous call.
ReadFile(e, i) ==
  /\ FirstRead(e, i, "sent")
  /\ reads' = [reads EXCEPT ![e][i] =
                 [at |-> "back", got |-> Answered(file), version |-> version]]
  /\ UNCHANGED <<server, page, save, spinner, schema, saves, edits, refused, broken>>

\* Variant: the route answers before the file is written.
OpenFileUnawaited(e, n) ==
  /\ save[e][n].at = "sent"
  /\ save' = [save EXCEPT ![e][n].at = "done"]
  /\ file' = Blank("empty")
  /\ UNCHANGED <<overlap, version, cut, page, reads, spinner, schema, saves, edits,
                 refused, broken>>

\* POST write-to-file: writeFile opens the file, and with that empties it ...
OpenFile(e, n) ==
  /\ save[e][n].at = "sent"
  /\ save' = [save EXCEPT ![e][n].at = "open"]
  /\ file' = Blank("empty")
  /\ overlap' = (overlap \/ \E o \in Pages, k \in SaveSlots : save[o][k].at = "open")
  /\ UNCHANGED <<version, cut, page, reads, spinner, schema, saves, edits, refused, broken>>

\* ... and writes it from its beginning.
WriteFile(e, n) ==
  /\ save[e][n].at = "open"
  /\ save' = [save EXCEPT ![e][n].at = "done"]
  /\ file' = Over(save[e][n].data, file)
  /\ version' = version + 1
  /\ IF shown[e] = save[e][n].data
       THEN /\ base' = [base EXCEPT ![e] = version + 1]
            /\ touched' = [touched EXCEPT ![e] = {}]
       ELSE UNCHANGED <<base, touched>>
  /\ UNCHANGED <<overlap, cut, shown, last, marked, rash, reads, spinner, schema, saves, edits,
                 refused, broken>>

\* Variant: an error is answered like a success.
FailWriteQuietly(e, n) ==
  /\ save[e][n].at \in {"sent", "open"}
  /\ save' = [save EXCEPT ![e][n].at = "done"]
  /\ cut' = (cut \/ save[e][n].at = "open")
  /\ UNCHANGED <<file, version, overlap, page, reads, spinner, schema, saves, edits, refused, broken>>

\* An error anywhere in the route is answered with status 500.
FailWrite(e, n) ==
  /\ save[e][n].at \in {"sent", "open"}
  /\ save' = [save EXCEPT ![e][n].at = "failed"]
  /\ cut' = (cut \/ save[e][n].at = "open")
  /\ UNCHANGED <<file, version, overlap, page, reads, spinner, schema, saves, edits, refused, broken>>

-----------------------------------------------------------------------------
(* The pages.  The spinner is drawn over a page, and keeps nobody from       *)
(* typing into it or from pressing its buttons with the keyboard.            *)

\* The text area has a default value only: what was read when it was put on the page
\* stays in it, until there is nothing to show and it is put there anew.
KeepsText(e, got) == e \in Advanced /\ last[e].kind # "none" /\ got.kind # "none"

\* An answer of read-file arrives, in whatever order.
ReceiveFile(e, i) ==
  LET got == reads[e][i].got IN
  /\ reads[e][i].at = "back"
  /\ reads' = [reads EXCEPT ![e][i] = NoRead]
  /\ last' = IF Dead(e) THEN last ELSE [last EXCEPT ![e] = got]
  /\ IF Dead(e) \/ KeepsText(e, got)
       THEN UNCHANGED <<shown, base, touched>>
       ELSE /\ shown' = [shown EXCEPT ![e] = got]
            /\ base' = [base EXCEPT ![e] = reads[e][i].version]
            /\ touched' = [touched EXCEPT ![e] = {}]
  /\ UNCHANGED <<marked, rash, server, save, spinner, schema, saves, edits, refused, broken>>

\* A read is lost: the page shows what it has shown.
LoseRead(e, i) ==
  /\ FirstRead(e, i, "sent")
  /\ reads' = [reads EXCEPT ![e][i] = NoRead]
  /\ UNCHANGED <<server, page, save, spinner, schema, saves, edits, refused, broken>>

\* Variant: the other flags are taken from what was read, not from what is shown.
ChosenFromLast(e, f, v) == Whole([last[e].flags EXCEPT ![f] = v])

\* updateFlagData, and the same by hand in the text area.
Chosen(e, f, v) == Whole([shown[e].flags EXCEPT ![f] = v])

\* What the saves under way are to know of: the page was typed in since.
Typed(e) ==
  [save EXCEPT ![e] = [n \in SaveSlots |-> [save[e][n] EXCEPT !.typed = save[e][n].at # "none"]]]

\* The user selects or types another variant of a flag.
Edit(e, f, v) ==
  /\ ~Dead(e)
  /\ shown[e].kind \in {"config", "invalid"}
  /\ v # shown[e].flags[f]
  /\ edits < MaxEdits
  /\ edits' = edits + 1
  /\ shown' = [shown EXCEPT ![e] = Chosen(e, f, v)]
  /\ marked' = [marked EXCEPT ![e] = e \in Advanced /\ Chosen(e, f, v) # last[e]]
  /\ touched' = [touched EXCEPT ![e] = @ \cup {f}]
  /\ rash' = [rash EXCEPT ![e] = e \in Advanced /\ Reading(e)]
  /\ save' = Typed(e)
  /\ UNCHANGED <<last, base, server, reads, spinner, schema, saves, refused, broken>>

\* The text area holds something that is not JSON, or not a file of flags.
Garble(e) ==
  /\ e \in Advanced
  /\ shown[e].kind = "config"
  /\ edits < MaxEdits
  /\ edits' = edits + 1
  /\ shown' = [shown EXCEPT ![e].kind = "invalid"]
  /\ marked' = [marked EXCEPT ![e] = TRUE]
  /\ save' = Typed(e)
  /\ UNCHANGED <<last, base, touched, rash, server, reads, spinner, schema, saves, refused, broken>>

\* The save button: the basic view sends what it shows, were it nothing yet; the
\* advanced view checks it, and cannot without both schemas.
Saveable(e) ==
  \/ e \in Basic
  \/ e \in Advanced /\ shown[e].kind = "config" /\ schema[e].had = 2

ClickSave(e, n) ==
  /\ ~Dead(e)
  /\ Saveable(e)
  /\ save[e][n].at = "none"
  /\ saves < MaxSaves
  /\ saves' = saves + 1
  /\ save' = [save EXCEPT ![e][n] =
                [at |-> "sent",
                 data |-> IF shown[e].kind = "config" THEN shown[e] ELSE Blank("null"),
                 base |-> base[e], touched |-> touched[e], typed |-> FALSE]]
  /\ spinner' = [spinner EXCEPT ![e] = TRUE]
  /\ UNCHANGED <<server, page, reads, schema, edits, refused, broken>>

\* Variant: the spinner is taken away only after a good answer.
SpinnerAfterGood(e, n) == save[e][n].at = "failed"

SpinnerAfter(e, n) == FALSE

\* The page reads the file twice, in the first two free slots.
ReadsTwice(e) ==
  \E i, j \in ReadSlots :
    /\ i < j /\ FirstRead(e, i, "none") /\ reads[e][j].at = "none"
    /\ \A k \in ReadSlots : i < k /\ k < j => reads[e][k].at # "none"
    /\ reads' = [reads EXCEPT ![e][i] = SentRead, ![e][j] = SentRead]

\* The page gets the answer, does not look at its status, and reads the file again.
ReceiveSaved(e, n) ==
  /\ save[e][n].at \in {"done", "failed"}
  /\ IF Dead(e) THEN UNCHANGED reads ELSE ReadsTwice(e)
  /\ save' = [save EXCEPT ![e][n] = NoSave]
  /\ spinner' = [spinner EXCEPT ![e] = SpinnerAfter(e, n)]
  /\ marked' = [marked EXCEPT ![e] = FALSE]
  /\ refused' = [refused EXCEPT ![e] = save[e][n].at = "failed"]
  /\ rash' = [rash EXCEPT ![e] = save[e][n].typed]
  /\ broken' = [broken EXCEPT ![e] = FALSE]
  /\ UNCHANGED <<shown, last, base, touched, server, schema, saves, edits>>

\* The request or the answer is lost, and the call fails at the page: the basic view
\* leaves the spinner as it is.
LoseSave(e, n) ==
  /\ save[e][n].at \in {"sent", "done", "failed"}
  /\ save' = [save EXCEPT ![e][n] = NoSave]
  /\ spinner' = [spinner EXCEPT ![e] = @ /\ e \in Basic]
  /\ broken' = [broken EXCEPT ![e] = spinner'[e]]
  /\ UNCHANGED <<server, page, reads, schema, saves, edits, refused>>

\* A schema arrives, which takes the spinner away, or it does not.
EndSchema(e, arrives) ==
  /\ schema[e].left > 0
  /\ schema' = [schema EXCEPT ![e] =
                  [left |-> @.left - 1, had |-> IF arrives THEN @.had + 1 ELSE @.had]]
  /\ spinner' = [spinner EXCEPT ![e] = @ /\ ~arrives]
  /\ broken' = [broken EXCEPT ![e] = schema'[e] = [left |-> 0, had |-> 0]]
  /\ UNCHANGED <<server, page, save, reads, saves, edits, refused>>

\* The user loads a page again that is of no more use.
Reopen(e) ==
  /\ broken[e] \/ shown[e].kind = "error"
  /\ ~Saving(e)
  /\ shown' = [shown EXCEPT ![e] = Blank("none")]
  /\ last' = [last EXCEPT ![e] = Blank("none")]
  /\ marked' = [marked EXCEPT ![e] = FALSE]
  /\ touched' = [touched EXCEPT ![e] = {}]
  /\ rash' = [rash EXCEPT ![e] = FALSE]
  /\ reads' = [reads EXCEPT ![e] = Opened(e)]
  /\ spinner' = [spinner EXCEPT ![e] = e \in Advanced]
  /\ schema' = [schema EXCEPT ![e] = Unasked(e)]
  /\ refused' = [refused EXCEPT ![e] = FALSE]
  /\ broken' = [broken EXCEPT ![e] = FALSE]
  /\ UNCHANGED <<base, server, save, saves, edits>>

Next ==
  \E e \in Pages :
    \/ \E n \in SaveSlots :
         \/ OpenFile(e, n) \/ WriteFile(e, n) \/ FailWrite(e, n)
         \/ ClickSave(e, n) \/ ReceiveSaved(e, n) \/ LoseSave(e, n)
    \/ \E i \in ReadSlots : ReadFile(e, i) \/ ReceiveFile(e, i) \/ LoseRead(e, i)
    \/ \E f \in Flags, v \in Variants : Edit(e, f, v)
    \/ Garble(e)
    \/ \E arrives \in BOOLEAN : EndSchema(e, arrives)
    \/ Reopen(e)

Spec == Init /\ [][Next]_vars

-----------------------------------------------------------------------------
(* Properties.                                                               *)

SaveType == [at : {"none", "sent", "open", "done", "failed"},
             data : Content({"config", "null"}), base : Nat, touched : SUBSET Flags,
             typed : BOOLEAN]
ReadType == [at : {"none", "sent", "back"}, got : Content({"config", "none", "error"}),
             version : Nat]
SchemaType == {s \in [left : 0..2, had : 0..2] : s.left + s.had <= 2}

\* The types of the variables; a basic page is never half way through a text.
FlagdUiTypeOK ==
  /\ file \in Content(FileKinds)
  /\ version \in Nat
  /\ save \in [Pages -> [SaveSlots -> SaveType]]
  /\ reads \in [Pages -> [ReadSlots -> ReadType]]
  /\ shown \in [Pages -> Content(PageKinds)]
  /\ last \in [Pages -> Content({"config", "none", "error"})]
  /\ marked \in [Pages -> BOOLEAN]
  /\ spinner \in [Pages -> BOOLEAN]
  /\ schema \in [Pages -> SchemaType]
  /\ saves \in 0..MaxSaves /\ edits \in 0..MaxEdits
  /\ base \in [Pages -> Nat] /\ touched \in [Pages -> SUBSET Flags]
  /\ rash \in [Pages -> BOOLEAN]
  /\ refused \in [Pages -> BOOLEAN] /\ broken \in [Pages -> BOOLEAN]
  /\ overlap \in BOOLEAN /\ cut \in BOOLEAN

\* What flagd and the next reader find: when nobody is in the middle of a write, the
\* file is one that a page saved as a whole, unless two writes overlapped (the end of
\* the longer text stays) or a write failed that had emptied the file.
FileIsWhole ==
  /\ file.kind = "empty" => cut \/ \E e \in Pages, n \in SaveSlots : save[e][n].at = "open"
  /\ file.kind = "torn" => overlap

\* A save that reaches the server while the file is still at the version that its page
\* goes back to changes no flag that its user did not change: edits of others are
\* lost only to a page that is older than they are.
FreshSaveKeepsOthers ==
  \A e \in Pages : \A n \in SaveSlots :
    LET s == save[e][n] IN
    /\ s.at = "sent"
    /\ s.data.kind = "config" /\ file.kind = "config"
    /\ s.base = version
    => \A f \in Flags \ s.touched : s.data.flags[f] = file.flags[f]

\* An advanced page that does not say "Unsaved changes" shows what it read last or a
\* version of the file, with three exceptions.  The last answer to a save of it was an
\* error, which the page takes for a success.  It was typed in while a read was under
\* way, and compared what was typed with what it had read before.  Or it was typed in
\* while a save was under way, and the answer took the mark off what was never saved.
UnmarkedIsSaved ==
  \A e \in Advanced :
    ~marked[e] /\ ~Saving(e) /\ ~refused[e] /\ ~rash[e]
      => \/ touched[e] = {} /\ shown[e].kind # "invalid"
         \/ shown[e] = last[e]

\* The spinner covers a page only while it waits for an answer to a save or for schemas,
\* unless the page lost a call and does not take it away: the basic view its save, the
\* advanced view both schemas.
SpinnerHasCause ==
  \A e \in Pages : spinner[e] => Saving(e) \/ schema[e].left > 0 \/ broken[e]
=============================================================================
