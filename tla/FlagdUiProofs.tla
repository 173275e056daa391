---------------------------- MODULE FlagdUiProofs ----------------------------
(*****************************************************************************)
(* The editor of the feature flags, for any number of pages, flags, saves and *)
(* edits: the types, what the file holds between two writes, why a page is   *)
(* covered by its spinner, whose edits a save overwrites, and what is shown on *)
(* a page without "Unsaved changes".                                         *)
(*****************************************************************************)
EXTENDS FlagdUi, TLAPS

USE DEF server, page

-----------------------------------------------------------------------------
(* Types. *)

\* A flag of a page is set.
LEMMA FlagIsSet ==
  ASSUME NEW S, NEW f \in [S -> BOOLEAN], NEW e \in S, NEW b \in BOOLEAN
  PROVE  [f EXCEPT ![e] = b] \in [S -> BOOLEAN]
  OBVIOUS

\* One save of a page is set.
LEMMA SaveIsSet ==
  ASSUME FlagdUiTypeOK, NEW e \in Pages, NEW n \in SaveSlots, NEW s \in SaveType,
         save' = [save EXCEPT ![e][n] = s]
  PROVE  /\ save' \in [Pages -> [SaveSlots -> SaveType]]
         /\ save'[e][n] = s
         /\ \A k \in SaveSlots \ {n} : save'[e][k] = save[e][k]
         /\ \A o \in Pages \ {e} : save'[o] = save[o]
  <1>1. save \in [Pages -> [SaveSlots -> SaveType]]
    BY DEF FlagdUiTypeOK
  <1>2. save'[e] = [save[e] EXCEPT ![n] = s] /\ \A o \in Pages \ {e} : save'[o] = save[o]
    BY <1>1
  <1>3. save[e] \in [SaveSlots -> SaveType]
    BY <1>1
  <1>4. save'[e] \in [SaveSlots -> SaveType]
    BY <1>2, <1>3
  <1>5. save' \in [Pages -> [SaveSlots -> SaveType]]
    BY <1>1, <1>2, <1>4
  <1>6. QED
    BY <1>2, <1>3, <1>5

\* A save goes on at the server.
LEMMA SaveGoesOn ==
  ASSUME FlagdUiTypeOK, NEW e \in Pages, NEW n \in SaveSlots,
         NEW to \in {"none", "sent", "open", "done", "failed"},
         save' = [save EXCEPT ![e][n].at = to]
  PROVE  /\ save' \in [Pages -> [SaveSlots -> SaveType]]
         /\ save'[e][n].at = to /\ save'[e][n].data = save[e][n].data
         /\ save'[e][n].base = save[e][n].base /\ save'[e][n].touched = save[e][n].touched
         /\ save'[e][n].typed = save[e][n].typed
         /\ \A k \in SaveSlots \ {n} : save'[e][k] = save[e][k]
         /\ \A o \in Pages \ {e} : save'[o] = save[o]
  <1> DEFINE s == [save[e][n] EXCEPT !.at = to]
  <1>1. save[e][n] \in SaveType
    BY DEF FlagdUiTypeOK
  <1>2. s \in SaveType /\ s.at = to /\ s.data = save[e][n].data /\ s.base = save[e][n].base
        /\ s.touched = save[e][n].touched /\ s.typed = save[e][n].typed
    BY <1>1 DEF SaveType
  <1>3. save' = [save EXCEPT ![e][n] = s]
    OBVIOUS
  <1>0. save \in [Pages -> [SaveSlots -> SaveType]]
    BY DEF FlagdUiTypeOK
  <1> HIDE DEF s
  <1>4. /\ save' \in [Pages -> [SaveSlots -> SaveType]] /\ save'[e][n] = s
        /\ \A k \in SaveSlots \ {n} : save'[e][k] = save[e][k]
        /\ \A o \in Pages \ {e} : save'[o] = save[o]
    BY <1>0, <1>2, <1>3
  <1>5. QED
    BY <1>2, <1>4

\* What the saves of a page know of typing changes nothing else about them.
LEMMA SavesAreTyped ==
  ASSUME FlagdUiTypeOK, NEW e \in Pages, save' = Typed(e)
  PROVE  /\ save' \in [Pages -> [SaveSlots -> SaveType]]
         /\ \A k \in SaveSlots : /\ save'[e][k].at = save[e][k].at
                                 /\ save'[e][k].data = save[e][k].data
                                 /\ save'[e][k].base = save[e][k].base
                                 /\ save'[e][k].touched = save[e][k].touched
                                 /\ save'[e][k].at # "none" => save'[e][k].typed
         /\ \A o \in Pages \ {e} : save'[o] = save[o]
  <1> DEFINE t == [n \in SaveSlots |-> [save[e][n] EXCEPT !.typed = save[e][n].at # "none"]]
  <1>1. save \in [Pages -> [SaveSlots -> SaveType]]
    BY DEF FlagdUiTypeOK
  <1>2. save' = [save EXCEPT ![e] = t]
    BY DEF Typed
  <1>3. ASSUME NEW k \in SaveSlots
        PROVE  /\ t[k] \in SaveType /\ t[k].at = save[e][k].at /\ t[k].data = save[e][k].data
               /\ t[k].base = save[e][k].base /\ t[k].touched = save[e][k].touched
               /\ t[k].at # "none" => t[k].typed
    <2> DEFINE was == save[e][k].at # "none"
    <2>1. save[e][k] \in SaveType /\ was \in BOOLEAN
      BY <1>1
    <2>2. t[k] = [save[e][k] EXCEPT !.typed = was]
      OBVIOUS
    <2>3. t[k].typed = was /\ t[k].at = save[e][k].at
      BY <2>1, <2>2 DEF SaveType
    <2> HIDE DEF t
    <2>4. t[k].at # "none" => t[k].typed
      BY <2>3
    <2> HIDE DEF was
    <2>5. QED
      BY <2>1, <2>2, <2>4 DEF SaveType
  <1>4. t \in [SaveSlots -> SaveType]
    BY <1>3
  <1> HIDE DEF t
  <1>5. save'[e] = t /\ \A o \in Pages \ {e} : save'[o] = save[o]
    BY <1>1, <1>2
  <1>6. save' \in [Pages -> [SaveSlots -> SaveType]]
    BY <1>1, <1>2, <1>4
  <1>7. QED
    BY <1>3, <1>5, <1>6

\* One read of a page is set.
LEMMA ReadIsSet ==
  ASSUME FlagdUiTypeOK, NEW e \in Pages, NEW i \in ReadSlots, NEW r \in ReadType,
         reads' = [reads EXCEPT ![e][i] = r]
  PROVE  /\ reads' \in [Pages -> [ReadSlots -> ReadType]]
         /\ reads'[e][i] = r
         /\ \A j \in ReadSlots \ {i} : reads'[e][j] = reads[e][j]
         /\ \A o \in Pages \ {e} : reads'[o] = reads[o]
  <1>1. reads \in [Pages -> [ReadSlots -> ReadType]]
    BY DEF FlagdUiTypeOK
  <1>2. reads'[e] = [reads[e] EXCEPT ![i] = r] /\ \A o \in Pages \ {e} : reads'[o] = reads[o]
    BY <1>1
  <1>3. reads[e] \in [ReadSlots -> ReadType]
    BY <1>1
  <1>4. reads'[e] \in [ReadSlots -> ReadType]
    BY <1>2, <1>3
  <1>5. reads' \in [Pages -> [ReadSlots -> ReadType]]
    BY <1>1, <1>2, <1>4
  <1>6. QED
    BY <1>2, <1>3, <1>5

\* What the server makes of a save, and what it answers to a read.
LEMMA ContentTypes ==
  ASSUME NEW new \in Content({"config", "null"}), NEW old \in Content(FileKinds)
  PROVE  /\ Over(new, old) \in Content(FileKinds)
         /\ Answered(old) \in Content({"config", "none", "error"})
  BY FlagdUiAssumption DEF Content, FileKinds, Over, Answered, Blank

LEMMA InitialTypes ==
  /\ \A kind \in {"config", "null", "empty", "torn", "none", "error", "invalid"} :
       Blank(kind) \in Content({kind})
  /\ NoSave \in SaveType
  /\ NoRead \in ReadType /\ SentRead \in ReadType
  /\ \A e \in Pages : Opened(e) \in [ReadSlots -> ReadType]
  /\ \A e \in Pages : Unasked(e) \in SchemaType
  <1>1. \A kind \in {"config", "null", "empty", "torn", "none", "error", "invalid"} :
          Blank(kind) \in Content({kind})
    BY FlagdUiAssumption DEF Blank, Content
  <1>2. Blank("null") \in Content({"config", "null"})
        /\ Blank("none") \in Content({"config", "none", "error"})
    BY FlagdUiAssumption DEF Blank, Content
  <1>3. NoSave \in SaveType
    BY <1>2 DEF NoSave, SaveType
  <1>4. NoRead \in ReadType /\ SentRead \in ReadType
    BY <1>2 DEF NoRead, SentRead, ReadType
  <1>5. \A e \in Pages : Opened(e) \in [ReadSlots -> ReadType]
    BY <1>4 DEF Opened
  <1>6. \A e \in Pages : Unasked(e) \in SchemaType
    BY DEF Unasked, SchemaType
  <1>7. QED
    BY <1>1, <1>3, <1>4, <1>5, <1>6

\* The reads after an answer.
LEMMA TwoReads ==
  ASSUME FlagdUiTypeOK, NEW e \in Pages, ReadsTwice(e)
  PROVE  /\ reads' \in [Pages -> [ReadSlots -> ReadType]]
         /\ \A j \in ReadSlots : reads'[e][j] \in {reads[e][j], SentRead}
         /\ \A o \in Pages \ {e} : reads'[o] = reads[o]
  <1>1. reads \in [Pages -> [ReadSlots -> ReadType]] /\ SentRead \in ReadType
    BY InitialTypes DEF FlagdUiTypeOK
  <1>2. PICK i \in ReadSlots, j \in ReadSlots :
          reads' = [reads EXCEPT ![e][i] = SentRead, ![e][j] = SentRead]
    BY DEF ReadsTwice
  <1> DEFINE t == [[reads[e] EXCEPT ![i] = SentRead] EXCEPT ![j] = SentRead]
  <1>3. reads' = [reads EXCEPT ![e] = t]
    BY <1>1, <1>2
  <1>4. t \in [ReadSlots -> ReadType] /\ \A k \in ReadSlots : t[k] \in {reads[e][k], SentRead}
    BY <1>1
  <1> HIDE DEF t
  <1>5. QED
    BY <1>1, <1>3, <1>4

\* The types of the variables are kept by every step of a page or of the server.
THEOREM FlagdUiTypeCorrect == Spec => []FlagdUiTypeOK
  <1>1. Init => FlagdUiTypeOK
    <2> SUFFICES ASSUME Init PROVE FlagdUiTypeOK
      OBVIOUS
    <2>1. /\ file \in Content(FileKinds) /\ Blank("none") \in Content(PageKinds)
          /\ Blank("none") \in Content({"config", "none", "error"})
      BY FlagdUiAssumption DEF Init, Whole, Content, FileKinds, PageKinds, Blank
    <2>2. /\ save \in [Pages -> [SaveSlots -> SaveType]]
          /\ reads \in [Pages -> [ReadSlots -> ReadType]]
          /\ schema \in [Pages -> SchemaType]
      BY InitialTypes DEF Init
    <2>3. /\ marked \in [Pages -> BOOLEAN]
          /\ rash \in [Pages -> BOOLEAN]
          /\ refused \in [Pages -> BOOLEAN] /\ broken \in [Pages -> BOOLEAN]
      BY DEF Init
    <2>4. spinner \in [Pages -> BOOLEAN]
      <3>1. \A e \in Pages : (e \in Advanced) \in BOOLEAN
        OBVIOUS
      <3>2. QED
        BY <3>1 DEF Init
    <2>5. /\ shown \in [Pages -> Content(PageKinds)]
          /\ last \in [Pages -> Content({"config", "none", "error"})]
          /\ base \in [Pages -> Nat] /\ touched \in [Pages -> SUBSET Flags]
      BY <2>1 DEF Init
    <2>6. /\ version \in Nat /\ overlap \in BOOLEAN /\ cut \in BOOLEAN
          /\ saves \in 0..MaxSaves /\ edits \in 0..MaxEdits
      <3>1. MaxSaves \in Nat /\ MaxEdits \in Nat
        BY FlagdUiAssumption
      <3>2. version = 0 /\ saves = 0 /\ edits = 0
        BY DEF Init
      <3>3. overlap \in BOOLEAN /\ cut \in BOOLEAN
        BY DEF Init
      <3>4. QED
        BY <3>1, <3>2, <3>3
    <2>7. QED
      BY <2>1, <2>2, <2>3, <2>4, <2>5, <2>6 DEF FlagdUiTypeOK
  <1>2. FlagdUiTypeOK /\ [Next]_vars => FlagdUiTypeOK'
    <2> SUFFICES ASSUME FlagdUiTypeOK, [Next]_vars PROVE FlagdUiTypeOK'
      OBVIOUS
    <2>1. ASSUME NEW e \in Pages, NEW n \in SaveSlots, OpenFile(e, n) PROVE FlagdUiTypeOK'
      <3>1. save' \in [Pages -> [SaveSlots -> SaveType]]
        BY <2>1, SaveGoesOn DEF OpenFile
      <3>2. file' \in Content(FileKinds)
        BY <2>1, FlagdUiAssumption DEF OpenFile, Blank, Content, FileKinds
      <3>3. overlap' \in BOOLEAN
        BY <2>1 DEF OpenFile
      <3>4. QED
        BY <2>1, <3>1, <3>2, <3>3 DEF OpenFile, FlagdUiTypeOK
    <2>2. ASSUME NEW e \in Pages, NEW n \in SaveSlots, WriteFile(e, n) PROVE FlagdUiTypeOK'
      <3>1. /\ save' \in [Pages -> [SaveSlots -> SaveType]]
            /\ save[e][n].data \in Content({"config", "null"})
        <4>1. save' \in [Pages -> [SaveSlots -> SaveType]]
          BY <2>2, SaveGoesOn DEF WriteFile
        <4>2. QED
          BY <4>1 DEF FlagdUiTypeOK, SaveType
      <3>2. file' \in Content(FileKinds)
        BY <2>2, <3>1, ContentTypes DEF WriteFile, FlagdUiTypeOK
      <3>3. version' \in Nat /\ base' \in [Pages -> Nat] /\ touched' \in [Pages -> SUBSET Flags]
        <4>1. version \in Nat /\ base \in [Pages -> Nat] /\ touched \in [Pages -> SUBSET Flags]
          BY DEF FlagdUiTypeOK
        <4>2. version' \in Nat
          BY <2>2, <4>1 DEF WriteFile
        <4>3. CASE shown[e] = save[e][n].data
          BY <2>2, <4>1, <4>3 DEF WriteFile
        <4>4. CASE shown[e] # save[e][n].data
          BY <2>2, <4>1, <4>4 DEF WriteFile
        <4>5. QED
          BY <4>2, <4>3, <4>4
      <3>4. QED
        BY <2>2, <3>1, <3>2, <3>3 DEF WriteFile, FlagdUiTypeOK
    <2>3. ASSUME NEW e \in Pages, NEW n \in SaveSlots, FailWrite(e, n) PROVE FlagdUiTypeOK'
      <3>1. save' \in [Pages -> [SaveSlots -> SaveType]]
        BY <2>3, SaveGoesOn DEF FailWrite
      <3>2. cut' \in BOOLEAN
        BY <2>3 DEF FailWrite
      <3>3. QED
        BY <2>3, <3>1, <3>2 DEF FailWrite, FlagdUiTypeOK
    <2>4. ASSUME NEW e \in Pages, NEW i \in ReadSlots, ReadFile(e, i) PROVE FlagdUiTypeOK'
      <3>1. Answered(file) \in Content({"config", "none", "error"})
        BY InitialTypes, ContentTypes, FlagdUiAssumption
           DEF FlagdUiTypeOK, Blank, Content
      <3>2. [at |-> "back", got |-> Answered(file), version |-> version] \in ReadType
        BY <3>1 DEF ReadType, FlagdUiTypeOK
      <3>3. reads' \in [Pages -> [ReadSlots -> ReadType]]
        BY <2>4, <3>2, ReadIsSet DEF ReadFile
      <3>4. QED
        BY <2>4, <3>3 DEF ReadFile, FlagdUiTypeOK
    <2>5. ASSUME NEW e \in Pages, NEW i \in ReadSlots, ReceiveFile(e, i) PROVE FlagdUiTypeOK'
      <3>1. /\ reads[e][i].got \in Content({"config", "none", "error"})
            /\ reads[e][i].got \in Content(PageKinds) /\ reads[e][i].version \in Nat
        BY DEF FlagdUiTypeOK, ReadType, Content, PageKinds
      <3>2. reads' \in [Pages -> [ReadSlots -> ReadType]]
        BY <2>5, InitialTypes, ReadIsSet DEF ReceiveFile
      <3>3. last' \in [Pages -> Content({"config", "none", "error"})]
        BY <2>5, <3>1 DEF ReceiveFile, FlagdUiTypeOK
      <3>4. /\ shown' \in [Pages -> Content(PageKinds)] /\ base' \in [Pages -> Nat]
            /\ touched' \in [Pages -> SUBSET Flags]
        BY <2>5, <3>1 DEF ReceiveFile, FlagdUiTypeOK
      <3>5. QED
        BY <2>5, <3>2, <3>3, <3>4 DEF ReceiveFile, FlagdUiTypeOK
    <2>6. ASSUME NEW e \in Pages, NEW f \in Flags, NEW v \in Variants, Edit(e, f, v)
          PROVE  FlagdUiTypeOK'
      <3>1. Chosen(e, f, v) \in Content(PageKinds)
        BY DEF Chosen, Whole, FlagdUiTypeOK, Content, PageKinds, Configs
      <3>2. shown' \in [Pages -> Content(PageKinds)] /\ touched' \in [Pages -> SUBSET Flags]
        BY <2>6, <3>1 DEF Edit, FlagdUiTypeOK
      <3>3. edits' \in 0..MaxEdits
        BY <2>6, FlagdUiAssumption DEF Edit, FlagdUiTypeOK
      <3>4. save' \in [Pages -> [SaveSlots -> SaveType]]
        BY <2>6, SavesAreTyped DEF Edit
      <3>5. marked' \in [Pages -> BOOLEAN]
        BY <2>6, FlagIsSet DEF Edit, FlagdUiTypeOK
      <3>6. rash' \in [Pages -> BOOLEAN]
        BY <2>6, FlagIsSet DEF Edit, FlagdUiTypeOK
      <3>7. QED
        BY <2>6, <3>2, <3>3, <3>4, <3>5, <3>6 DEF Edit, FlagdUiTypeOK
    <2>7. ASSUME NEW e \in Pages, Garble(e) PROVE FlagdUiTypeOK'
      <3>1. shown' \in [Pages -> Content(PageKinds)]
        BY <2>7 DEF Garble, FlagdUiTypeOK, Content, PageKinds
      <3>2. edits' \in 0..MaxEdits
        BY <2>7, FlagdUiAssumption DEF Garble, FlagdUiTypeOK
      <3>3. marked' \in [Pages -> BOOLEAN] /\ save' \in [Pages -> [SaveSlots -> SaveType]]
        BY <2>7, SavesAreTyped DEF Garble, FlagdUiTypeOK
      <3>4. QED
        BY <2>7, <3>1, <3>2, <3>3 DEF Garble, FlagdUiTypeOK
    <2>8. ASSUME NEW e \in Pages, NEW n \in SaveSlots, ClickSave(e, n) PROVE FlagdUiTypeOK'
      <3> DEFINE data == IF shown[e].kind = "config" THEN shown[e] ELSE Blank("null")
      <3>1. data \in Content({"config", "null"})
        BY InitialTypes DEF FlagdUiTypeOK, Content
      <3>2. [at |-> "sent", data |-> data, base |-> base[e], touched |-> touched[e],
             typed |-> FALSE] \in SaveType
        BY <3>1 DEF SaveType, FlagdUiTypeOK
      <3>3. save' \in [Pages -> [SaveSlots -> SaveType]]
        BY <2>8, <3>2, SaveIsSet DEF ClickSave
      <3>4. saves' \in 0..MaxSaves
        BY <2>8, FlagdUiAssumption DEF ClickSave, FlagdUiTypeOK
      <3>5. spinner' \in [Pages -> BOOLEAN]
        BY <2>8 DEF ClickSave, FlagdUiTypeOK
      <3>6. QED
        BY <2>8, <3>3, <3>4, <3>5 DEF ClickSave, FlagdUiTypeOK
    <2>9. ASSUME NEW e \in Pages, NEW n \in SaveSlots, ReceiveSaved(e, n) PROVE FlagdUiTypeOK'
      <3>1. save' \in [Pages -> [SaveSlots -> SaveType]] /\ save[e][n].typed \in BOOLEAN
        <4>1. save[e][n].typed \in BOOLEAN
          BY DEF FlagdUiTypeOK, SaveType
        <4>2. QED
          BY <2>9, <4>1, InitialTypes, SaveIsSet DEF ReceiveSaved
      <3>2. reads' \in [Pages -> [ReadSlots -> ReadType]]
        BY <2>9, TwoReads DEF ReceiveSaved, FlagdUiTypeOK
      <3>3. /\ spinner' \in [Pages -> BOOLEAN] /\ marked' \in [Pages -> BOOLEAN]
            /\ broken' \in [Pages -> BOOLEAN]
        BY <2>9 DEF ReceiveSaved, SpinnerAfter, FlagdUiTypeOK
      <3>4. refused' \in [Pages -> BOOLEAN]
        BY <2>9, FlagIsSet DEF ReceiveSaved, FlagdUiTypeOK
      <3>5. rash' \in [Pages -> BOOLEAN]
        BY <2>9, <3>1, FlagIsSet DEF ReceiveSaved, FlagdUiTypeOK
      <3>6. QED
        BY <2>9, <3>1, <3>2, <3>3, <3>4, <3>5 DEF ReceiveSaved, FlagdUiTypeOK
    <2>10. ASSUME NEW e \in Pages, NEW n \in SaveSlots, LoseSave(e, n) PROVE FlagdUiTypeOK'
      <3>1. save' \in [Pages -> [SaveSlots -> SaveType]]
        BY <2>10, InitialTypes, SaveIsSet DEF LoseSave
      <3>2. spinner' \in [Pages -> BOOLEAN]
        BY <2>10, FlagIsSet DEF LoseSave, FlagdUiTypeOK
      <3>3. broken' \in [Pages -> BOOLEAN]
        <4>1. spinner'[e] \in BOOLEAN
          BY <3>2
        <4>2. QED
          BY <2>10, <4>1, FlagIsSet DEF LoseSave, FlagdUiTypeOK
      <3>4. QED
        BY <2>10, <3>1, <3>2, <3>3 DEF LoseSave, FlagdUiTypeOK
    <2>11. ASSUME NEW e \in Pages, NEW arrives \in BOOLEAN, EndSchema(e, arrives)
           PROVE  FlagdUiTypeOK'
      <3>1. schema' \in [Pages -> SchemaType]
        <4>1. schema[e] \in SchemaType /\ schema[e].left > 0
          BY <2>11 DEF EndSchema, FlagdUiTypeOK
        <4>2. PICK had \in 0..2 : /\ had = IF arrives THEN schema[e].had + 1 ELSE schema[e].had
                                  /\ schema[e].left - 1 \in 0..2
                                  /\ schema[e].left - 1 + had <= 2
          <5>1. CASE arrives
            BY <4>1, <5>1 DEF SchemaType
          <5>2. CASE ~arrives
            BY <4>1, <5>2 DEF SchemaType
          <5>3. QED
            BY <5>1, <5>2
        <4>3. [left |-> schema[e].left - 1, had |-> had] \in SchemaType
          BY <4>2 DEF SchemaType
        <4>4. schema' = [schema EXCEPT ![e] = [left |-> schema[e].left - 1, had |-> had]]
          BY <2>11, <4>2 DEF EndSchema
        <4>5. QED
          BY <4>3, <4>4 DEF FlagdUiTypeOK
      <3>2. spinner' \in [Pages -> BOOLEAN]
        BY <2>11, FlagIsSet DEF EndSchema, FlagdUiTypeOK
      <3>3. broken' \in [Pages -> BOOLEAN]
        BY <2>11, FlagIsSet DEF EndSchema, FlagdUiTypeOK
      <3>4. QED
        BY <2>11, <3>1, <3>2, <3>3 DEF EndSchema, FlagdUiTypeOK
    <2>12. ASSUME NEW e \in Pages, Reopen(e) PROVE FlagdUiTypeOK'
      <3>1. /\ shown' \in [Pages -> Content(PageKinds)]
            /\ last' \in [Pages -> Content({"config", "none", "error"})]
            /\ touched' \in [Pages -> SUBSET Flags]
        BY <2>12, FlagdUiAssumption DEF Reopen, FlagdUiTypeOK, Blank, Content, PageKinds
      <3>2. /\ reads' \in [Pages -> [ReadSlots -> ReadType]]
            /\ schema' \in [Pages -> SchemaType]
        BY <2>12, InitialTypes DEF Reopen, FlagdUiTypeOK
      <3>3. /\ marked' \in [Pages -> BOOLEAN]
            /\ rash' \in [Pages -> BOOLEAN]
            /\ refused' \in [Pages -> BOOLEAN] /\ broken' \in [Pages -> BOOLEAN]
        BY <2>12 DEF Reopen, FlagdUiTypeOK
      <3>4. spinner' \in [Pages -> BOOLEAN]
        BY <2>12, FlagIsSet DEF Reopen, FlagdUiTypeOK
      <3>5. QED
        BY <2>12, <3>1, <3>2, <3>3, <3>4 DEF Reopen, FlagdUiTypeOK
    <2>13. ASSUME NEW e \in Pages, NEW i \in ReadSlots, LoseRead(e, i) PROVE FlagdUiTypeOK'
      <3>1. reads' \in [Pages -> [ReadSlots -> ReadType]]
        BY <2>13, InitialTypes, ReadIsSet DEF LoseRead
      <3>2. QED
        BY <2>13, <3>1 DEF LoseRead, FlagdUiTypeOK
    <2>14. CASE UNCHANGED vars
      BY <2>14 DEF vars, FlagdUiTypeOK
    <2>15. QED
      BY <2>1, <2>2, <2>3, <2>4, <2>5, <2>6, <2>7, <2>8, <2>9, <2>10, <2>11, <2>12, <2>13,
         <2>14 DEF Next
  <1>3. QED
    BY <1>1, <1>2, PTL DEF Spec

-----------------------------------------------------------------------------
(* The file. *)

\* A file that is not empty while a save is half way through a write was written by
\* another one, and so was a file that two saves are half way through.
FileInv ==
  /\ \A e, o \in Pages : \A n, k \in SaveSlots :
       (e # o \/ n # k) /\ save[e][n].at = "open" /\ save[o][k].at = "open" => overlap
  /\ \A e \in Pages : \A n \in SaveSlots :
       save[e][n].at = "open" /\ file.kind # "empty" => overlap
  /\ FileIsWhole

\* Steps that neither open the file nor leave it.
LEMMA AwayFromFile ==
  ASSUME FileInv, UNCHANGED <<file, overlap, cut>>,
         \A o \in Pages : \A k \in SaveSlots : save'[o][k].at = "open" <=> save[o][k].at = "open"
  PROVE  FileInv'
  BY DEF FileInv, FileIsWhole

\* Written over a file that is not longer, a file is what was to be written.
LEMMA OverIsWhole ==
  ASSUME NEW new \in Content({"config", "null"}), NEW old \in Content(FileKinds)
  PROVE  /\ Over(new, old).kind # "empty"
         /\ Over(new, old).kind = "torn" => old.kind # "empty"
         /\ Over(new, old).kind # "torn" => Over(new, old) = new
  <1>1. LengthOf(new) \in Nat
    BY FlagdUiAssumption DEF LengthOf, Content
  <1>2. old.kind \notin {"config", "torn"} => LengthOf(old) = 0
    BY DEF LengthOf
  <1>3. new.kind \in {"config", "null"}
    BY DEF Content
  <1>4. CASE LengthOf(new) >= LengthOf(old)
    BY <1>3, <1>4 DEF Over
  <1>5. CASE ~(LengthOf(new) >= LengthOf(old))
    <2>1. old.kind \in {"config", "torn"}
      BY <1>1, <1>2, <1>5
    <2>2. Over(new, old) = [kind |-> "torn", flags |-> old.flags]
      BY <1>5 DEF Over
    <2>3. QED
      BY <2>1, <2>2
  <1>6. QED
    BY <1>4, <1>5

\* When no page is half way through a write, the file is a whole one, unless writes
\* overlapped or one failed after it had emptied the file.
THEOREM FileStaysWhole == Spec => []FileIsWhole
  <1>1. Init => FileInv
    BY DEF Init, FileInv, FileIsWhole, NoSave, Whole
  <1>2. FlagdUiTypeOK /\ FileInv /\ [Next]_vars => FileInv'
    <2> SUFFICES ASSUME FlagdUiTypeOK, FileInv, [Next]_vars PROVE FileInv'
      OBVIOUS
    <2>1. ASSUME NEW e \in Pages, NEW n \in SaveSlots, OpenFile(e, n) PROVE FileInv'
      <3>1. /\ save'[e][n].at = "open" /\ \A k \in SaveSlots \ {n} : save'[e][k] = save[e][k]
            /\ \A o \in Pages \ {e} : save'[o] = save[o]
        BY <2>1, SaveGoesOn DEF OpenFile
      <3>2. file'.kind = "empty" /\ save[e][n].at = "sent"
        BY <2>1 DEF OpenFile, Blank
      <3>3. overlap => overlap'
        BY <2>1 DEF OpenFile
      <3>4. (\E o \in Pages, k \in SaveSlots : save[o][k].at = "open") => overlap'
        BY <2>1 DEF OpenFile
      <3>5. QED
        BY <3>1, <3>2, <3>3, <3>4 DEF FileInv, FileIsWhole
    <2>2. ASSUME NEW e \in Pages, NEW n \in SaveSlots, WriteFile(e, n) PROVE FileInv'
      <3>1. /\ save'[e][n].at = "done" /\ \A k \in SaveSlots \ {n} : save'[e][k] = save[e][k]
            /\ \A o \in Pages \ {e} : save'[o] = save[o]
        BY <2>2, SaveGoesOn DEF WriteFile
      <3>2. file' = Over(save[e][n].data, file) /\ UNCHANGED <<overlap, cut>>
            /\ save[e][n].at = "open"
        BY <2>2 DEF WriteFile
      <3>3. save[e][n].data \in Content({"config", "null"}) /\ file \in Content(FileKinds)
        BY DEF FlagdUiTypeOK, SaveType
      <3>4. file'.kind # "empty" /\ (file'.kind = "torn" => file.kind # "empty")
        BY <3>2, <3>3, OverIsWhole
      <3>5. QED
        BY <3>1, <3>2, <3>4 DEF FileInv, FileIsWhole
    <2>3. ASSUME NEW e \in Pages, NEW n \in SaveSlots, FailWrite(e, n) PROVE FileInv'
      <3>0. save' = [save EXCEPT ![e][n].at = "failed"]
        BY <2>3 DEF FailWrite
      <3>1. /\ save'[e][n].at = "failed" /\ \A k \in SaveSlots \ {n} : save'[e][k] = save[e][k]
            /\ \A o \in Pages \ {e} : save'[o] = save[o]
        BY <3>0 DEF FlagdUiTypeOK, SaveType
      <3>2. UNCHANGED <<file, overlap>>
        BY <2>3 DEF FailWrite
      <3>3. (cut => cut') /\ (save[e][n].at = "open" => cut')
        BY <2>3 DEF FailWrite
      <3>4. QED
        BY <3>1, <3>2, <3>3 DEF FileInv, FileIsWhole
    <2>4. ASSUME NEW e \in Pages, NEW n \in SaveSlots,
                 ClickSave(e, n) \/ ReceiveSaved(e, n) \/ LoseSave(e, n)
          PROVE  FileInv'
      <3>1. UNCHANGED <<file, overlap, cut>>
        BY <2>4 DEF ClickSave, ReceiveSaved, LoseSave
      <3>2. PICK s \in SaveType : s.at # "open" /\ save' = [save EXCEPT ![e][n] = s]
        <4>1. CASE ClickSave(e, n)
          <5> DEFINE data == IF shown[e].kind = "config" THEN shown[e] ELSE Blank("null")
          <5> DEFINE s == [at |-> "sent", data |-> data, base |-> base[e],
                           touched |-> touched[e], typed |-> FALSE]
          <5>1. data \in Content({"config", "null"})
            BY InitialTypes DEF FlagdUiTypeOK, Content
          <5>2. s \in SaveType /\ s.at # "open"
            BY <5>1 DEF SaveType, FlagdUiTypeOK
          <5>3. QED
            BY <4>1, <5>2 DEF ClickSave
        <4>2. CASE ReceiveSaved(e, n) \/ LoseSave(e, n)
          <5>1. NoSave \in SaveType /\ NoSave.at # "open"
            BY InitialTypes DEF NoSave
          <5>2. QED
            BY <4>2, <5>1 DEF ReceiveSaved, LoseSave
        <4>3. QED
          BY <2>4, <4>1, <4>2
      <3>3. save[e][n].at # "open"
        BY <2>4 DEF ClickSave, ReceiveSaved, LoseSave
      <3>4. /\ save'[e][n].at # "open" /\ \A k \in SaveSlots \ {n} : save'[e][k] = save[e][k]
            /\ \A o \in Pages \ {e} : save'[o] = save[o]
        BY <3>2, SaveIsSet, ZenonT(60)
      <3>5. QED
        BY <3>1, <3>3, <3>4, AwayFromFile
    <2>5. ASSUME UNCHANGED <<file, overlap, cut, save>> PROVE FileInv'
      BY <2>5, AwayFromFile
    <2>6. CASE UNCHANGED vars
      BY <2>5, <2>6 DEF vars
    <2>7. ASSUME NEW e \in Pages, NEW i \in ReadSlots,
                 ReadFile(e, i) \/ ReceiveFile(e, i) \/ LoseRead(e, i)
          PROVE  FileInv'
      BY <2>5, <2>7 DEF ReadFile, ReceiveFile, LoseRead
    <2>8. ASSUME NEW e \in Pages, UNCHANGED <<file, overlap, cut>>, save' = Typed(e)
          PROVE  FileInv'
      <3>1. /\ \A k \in SaveSlots : save'[e][k].at = save[e][k].at
            /\ \A o \in Pages \ {e} : save'[o] = save[o]
        BY <2>8, SavesAreTyped
      <3>2. QED
        BY <2>8, <3>1, AwayFromFile
    <2>9. ASSUME NEW e \in Pages, NEW f \in Flags, NEW v \in Variants, Edit(e, f, v)
          PROVE  FileInv'
      BY <2>8, <2>9 DEF Edit
    <2>10. ASSUME NEW e \in Pages, Garble(e) PROVE FileInv'
      BY <2>8, <2>10 DEF Garble
    <2>11. ASSUME NEW e \in Pages, NEW arrives \in BOOLEAN,
                  EndSchema(e, arrives) \/ Reopen(e)
           PROVE  FileInv'
      BY <2>5, <2>11 DEF EndSchema, Reopen
    <2>12. QED
      BY <2>1, <2>2, <2>3, <2>4, <2>6, <2>7, <2>9, <2>10, <2>11 DEF Next
  <1>3. FileInv => FileIsWhole
    BY DEF FileInv
  <1>4. QED
    BY <1>1, <1>2, <1>3, FlagdUiTypeCorrect, PTL DEF Spec

-----------------------------------------------------------------------------
(* The spinner. *)

\* A page that is covered and waits for no save still asks for schemas and has none of
\* them, and an advanced page saves with nothing left to ask for.
SpinnerOf(e) ==
  /\ spinner[e] /\ ~Saving(e) /\ ~broken[e] => schema[e].left > 0 /\ schema[e].had = 0
  /\ e \in Basic => schema[e].left = 0
  /\ e \in Advanced /\ (broken[e] \/ Saving(e)) => schema[e].left = 0

SpinnerInv == \A e \in Pages : SpinnerOf(e)

\* Steps of a page leave the spinners of the others as they are.
LEMMA OthersSpin ==
  ASSUME SpinnerInv, NEW e \in Pages, SpinnerOf(e)',
         \A o \in Pages \ {e} : /\ save'[o] = save[o] /\ schema'[o] = schema[o]
                                /\ spinner'[o] = spinner[o] /\ broken'[o] = broken[o]
  PROVE  SpinnerInv'
  BY DEF SpinnerInv, SpinnerOf, Saving

LEMMA SpinnerInvariant == Spec => []SpinnerInv
  <1>1. Init => SpinnerInv
    <2> SUFFICES ASSUME Init, NEW e \in Pages PROVE SpinnerOf(e)
      BY DEF SpinnerInv
    <2>1. ~Saving(e) /\ schema[e] = Unasked(e) /\ ~broken[e]
      BY DEF Init, NoSave, Saving
    <2>2. spinner[e] <=> e \in Advanced
      BY DEF Init
    <2>3. QED
      BY <2>1, <2>2, FlagdUiAssumption DEF SpinnerOf, Unasked
  <1>2. FlagdUiTypeOK /\ SpinnerInv /\ [Next]_vars => SpinnerInv'
    <2> SUFFICES ASSUME FlagdUiTypeOK, SpinnerInv, [Next]_vars PROVE SpinnerInv'
      OBVIOUS
    <2>0. /\ save \in [Pages -> [SaveSlots -> SaveType]] /\ schema \in [Pages -> SchemaType]
          /\ spinner \in [Pages -> BOOLEAN] /\ broken \in [Pages -> BOOLEAN]
      BY DEF FlagdUiTypeOK
    <2>1. ASSUME NEW e \in Pages, NEW n \in SaveSlots, NEW to \in {"open", "done", "failed"},
                 save' = [save EXCEPT ![e][n].at = to], save[e][n].at # "none",
                 UNCHANGED <<schema, spinner, broken>>
          PROVE  SpinnerInv'
      <3>1. save'[e][n].at = to /\ \A o \in Pages \ {e} : save'[o] = save[o]
        BY <2>1, SaveGoesOn
      <3>2. Saving(e) /\ Saving(e)'
        BY <2>1, <3>1 DEF Saving
      <3>3. SpinnerOf(e)'
        BY <2>1, <3>2 DEF SpinnerInv, SpinnerOf
      <3>4. QED
        BY <2>1, <3>1, <3>3, OthersSpin
    <2>2. ASSUME NEW e \in Pages, NEW n \in SaveSlots,
                 OpenFile(e, n) \/ WriteFile(e, n) \/ FailWrite(e, n)
          PROVE  SpinnerInv'
      <3>1. save[e][n].at # "none" /\ UNCHANGED <<schema, spinner, broken>>
        BY <2>2 DEF OpenFile, WriteFile, FailWrite
      <3>2. QED
        BY <2>1, <2>2, <3>1 DEF OpenFile, WriteFile, FailWrite
    <2>3. ASSUME NEW e \in Pages, NEW n \in SaveSlots, ClickSave(e, n) PROVE SpinnerInv'
      <3>1. /\ save'[e][n].at = "sent" /\ \A o \in Pages \ {e} : save'[o] = save[o]
            /\ UNCHANGED <<schema, broken>>
        BY <2>0, <2>3 DEF ClickSave
      <3>2. spinner'[e] /\ \A o \in Pages \ {e} : spinner'[o] = spinner[o]
        BY <2>0, <2>3 DEF ClickSave
      <3>3. e \in Advanced => schema[e].left = 0
        BY <2>0, <2>3, FlagdUiAssumption DEF ClickSave, Saveable, SchemaType
      <3>4. Saving(e)'
        BY <3>1 DEF Saving
      <3>5. SpinnerOf(e)'
        BY <3>1, <3>2, <3>3, <3>4 DEF SpinnerInv, SpinnerOf
      <3>6. QED
        BY <3>1, <3>2, <3>5, OthersSpin
    <2>4. ASSUME NEW e \in Pages, NEW n \in SaveSlots, save[e][n].at # "none",
                 save' = [save EXCEPT ![e][n] = NoSave]
          PROVE  Saving(e) /\ \A o \in Pages \ {e} : save'[o] = save[o]
      BY <2>0, <2>4 DEF Saving
    <2>5. ASSUME NEW e \in Pages, NEW n \in SaveSlots, ReceiveSaved(e, n) PROVE SpinnerInv'
      <3>1. /\ Saving(e) /\ \A o \in Pages \ {e} : save'[o] = save[o]
            /\ UNCHANGED schema
        BY <2>4, <2>5 DEF ReceiveSaved
      <3>2. ~spinner'[e] /\ \A o \in Pages \ {e} : spinner'[o] = spinner[o]
        BY <2>0, <2>5 DEF ReceiveSaved, SpinnerAfter
      <3>3. ~broken'[e] /\ \A o \in Pages \ {e} : broken'[o] = broken[o]
        BY <2>0, <2>5 DEF ReceiveSaved
      <3>4. SpinnerOf(e)'
        BY <3>1, <3>2, <3>3 DEF SpinnerInv, SpinnerOf
      <3>5. QED
        BY <3>1, <3>2, <3>3, <3>4, OthersSpin
    <2>15. ASSUME NEW e \in Pages, NEW n \in SaveSlots, LoseSave(e, n) PROVE SpinnerInv'
      <3>1. /\ Saving(e) /\ \A o \in Pages \ {e} : save'[o] = save[o]
            /\ UNCHANGED schema
        BY <2>4, <2>15 DEF LoseSave
      <3>2. /\ spinner'[e] <=> spinner[e] /\ e \in Basic
            /\ \A o \in Pages \ {e} : spinner'[o] = spinner[o]
        BY <2>0, <2>15 DEF LoseSave
      <3>3. (broken'[e] <=> spinner'[e]) /\ \A o \in Pages \ {e} : broken'[o] = broken[o]
        BY <2>0, <2>15 DEF LoseSave
      <3>4. SpinnerOf(e)'
        BY <3>1, <3>2, <3>3, FlagdUiAssumption DEF SpinnerInv, SpinnerOf
      <3>5. QED
        BY <3>1, <3>2, <3>3, <3>4, OthersSpin
    <2>6. ASSUME NEW e \in Pages, NEW arrives \in BOOLEAN, EndSchema(e, arrives)
          PROVE  SpinnerInv'
      <3>1. PICK had \in Nat : had = IF arrives THEN schema[e].had + 1 ELSE schema[e].had
        BY <2>0 DEF SchemaType
      <3>2. /\ schema[e].left > 0 /\ schema[e].left \in 0..2 /\ UNCHANGED save
            /\ schema'[e] = [left |-> schema[e].left - 1, had |-> had]
            /\ \A o \in Pages \ {e} : schema'[o] = schema[o]
        BY <2>0, <2>6, <3>1 DEF EndSchema, SchemaType
      <3>3. /\ spinner'[e] <=> spinner[e] /\ ~arrives
            /\ \A o \in Pages \ {e} : spinner'[o] = spinner[o]
        BY <2>0, <2>6 DEF EndSchema
      <3>4. /\ broken'[e] <=> schema'[e] = [left |-> 0, had |-> 0]
            /\ \A o \in Pages \ {e} : broken'[o] = broken[o]
        BY <2>0, <2>6 DEF EndSchema
      <3>5. e \in Advanced /\ e \notin Basic /\ ~broken[e] /\ ~Saving(e)
            /\ ~Saving(e)'
        BY <3>2 DEF SpinnerInv, SpinnerOf, Pages, Saving
      <3>6. /\ schema'[e].left = schema[e].left - 1 /\ schema'[e].had = had
            /\ schema'[e].left = 0 /\ had = 0 => broken'[e]
            /\ broken'[e] => schema'[e].left = 0
        BY <3>2, <3>4
      <3>7. spinner'[e] => ~arrives /\ schema[e].had = 0 /\ had = 0
        BY <3>1, <3>3, <3>5 DEF SpinnerInv, SpinnerOf
      <3>8. SpinnerOf(e)'
        BY <3>2, <3>5, <3>6, <3>7 DEF SpinnerOf
      <3>9. QED
        BY <3>2, <3>3, <3>4, <3>8, OthersSpin
    <2>7. ASSUME NEW e \in Pages, Reopen(e) PROVE SpinnerInv'
      <3>1. /\ schema'[e] = Unasked(e) /\ \A o \in Pages \ {e} : schema'[o] = schema[o]
            /\ ~Saving(e) /\ ~Saving(e)' /\ UNCHANGED save
        BY <2>0, <2>7 DEF Reopen, Saving
      <3>2. (spinner'[e] <=> e \in Advanced) /\ \A o \in Pages \ {e} : spinner'[o] = spinner[o]
        BY <2>0, <2>7 DEF Reopen
      <3>3. ~broken'[e] /\ \A o \in Pages \ {e} : broken'[o] = broken[o]
        BY <2>0, <2>7 DEF Reopen
      <3>4. SpinnerOf(e)'
        BY <3>1, <3>2, <3>3, FlagdUiAssumption DEF SpinnerOf, Unasked
      <3>5. QED
        BY <3>1, <3>2, <3>3, <3>4, OthersSpin
    <2>8. ASSUME UNCHANGED <<save, schema, spinner, broken>> PROVE SpinnerInv'
      BY <2>8 DEF SpinnerInv, SpinnerOf, Saving
    <2>9. ASSUME NEW e \in Pages, NEW i \in ReadSlots,
                 ReadFile(e, i) \/ ReceiveFile(e, i) \/ LoseRead(e, i)
          PROVE  SpinnerInv'
      BY <2>8, <2>9 DEF ReadFile, ReceiveFile, LoseRead
    <2>10. ASSUME NEW e \in Pages, save' = Typed(e), UNCHANGED <<schema, spinner, broken>>
           PROVE  SpinnerInv'
      <3>1. /\ \A k \in SaveSlots : save'[e][k].at = save[e][k].at
            /\ \A o \in Pages \ {e} : save'[o] = save[o]
        BY <2>10, SavesAreTyped
      <3>2. Saving(e)' <=> Saving(e)
        BY <3>1 DEF Saving
      <3>3. SpinnerOf(e)'
        BY <2>10, <3>2 DEF SpinnerInv, SpinnerOf
      <3>4. QED
        BY <2>10, <3>1, <3>3, OthersSpin
    <2>11. ASSUME NEW e \in Pages, NEW f \in Flags, NEW v \in Variants, Edit(e, f, v)
           PROVE  SpinnerInv'
      BY <2>10, <2>11 DEF Edit
    <2>12. ASSUME NEW e \in Pages, Garble(e) PROVE SpinnerInv'
      BY <2>10, <2>12 DEF Garble
    <2>13. CASE UNCHANGED vars
      BY <2>8, <2>13 DEF vars
    <2>14. QED
      BY <2>2, <2>3, <2>5, <2>6, <2>7, <2>9, <2>11, <2>12, <2>13, <2>15 DEF Next
  <1>3. QED
    BY <1>1, <1>2, FlagdUiTypeCorrect, PTL DEF Spec

\* A page is covered by its spinner only while it waits for an answer, unless it lost a
\* call whose failure leaves the spinner on.
THEOREM SpinnerIsCaused == Spec => []SpinnerHasCause
  <1>1. SpinnerInv => SpinnerHasCause
    BY DEF SpinnerInv, SpinnerOf, SpinnerHasCause
  <1>2. QED
    BY <1>1, SpinnerInvariant, PTL

-----------------------------------------------------------------------------
(* Edits of others. *)

\* A page, its save and its reads go back to versions that have been; and what goes back
\* to the version that is in the file agrees with it in all flags its user left alone.
Agrees(flags, except) == \A f \in Flags \ except : flags[f] = file.flags[f]

FreshPage(e) ==
  base[e] = version /\ shown[e].kind \in {"config", "invalid"} => Agrees(shown[e].flags, touched[e])

FreshSave(s) ==
  s.at = "sent" /\ s.base = version /\ s.data.kind = "config" => Agrees(s.data.flags, s.touched)

FreshRead(r) ==
  r.at = "back" /\ r.version = version /\ r.got.kind = "config" => Agrees(r.got.flags, {})

FreshInv ==
  \A e \in Pages :
    /\ base[e] <= version
    /\ \A n \in SaveSlots : save[e][n].base <= version
    /\ \A i \in ReadSlots : reads[e][i].version <= version
    /\ file.kind = "config" =>
         /\ FreshPage(e)
         /\ \A n \in SaveSlots : FreshSave(save[e][n])
         /\ \A i \in ReadSlots : FreshRead(reads[e][i])

\* Steps of a page that leave the file alone.
LEMMA FreshSteps ==
  ASSUME FreshInv, NEW e \in Pages, UNCHANGED <<file, version>>,
         \A o \in Pages \ {e} : /\ base'[o] = base[o] /\ shown'[o] = shown[o]
                                /\ touched'[o] = touched[o] /\ save'[o] = save[o]
                                /\ reads'[o] = reads[o],
         base'[e] <= version, \A n \in SaveSlots : save'[e][n].base <= version,
         \A i \in ReadSlots : reads'[e][i].version <= version,
         file.kind = "config" =>
           /\ FreshPage(e)'
           /\ \A n \in SaveSlots : FreshSave(save'[e][n])
           /\ \A i \in ReadSlots : FreshRead(reads'[e][i])
  PROVE  FreshInv'
  <1>1. /\ \A i \in ReadSlots : FreshRead(reads[e][i])' <=> FreshRead(reads'[e][i])
        /\ \A n \in SaveSlots : FreshSave(save[e][n])' <=> FreshSave(save'[e][n])
    BY DEF FreshRead, FreshSave, Agrees
  <1>2. ASSUME NEW o \in Pages \ {e}
        PROVE  /\ FreshPage(o)' <=> FreshPage(o)
               /\ \A n \in SaveSlots : FreshSave(save[o][n])' <=> FreshSave(save[o][n])
               /\ \A i \in ReadSlots : FreshRead(reads[o][i])' <=> FreshRead(reads[o][i])
    BY DEF FreshPage, FreshSave, FreshRead, Agrees
  <1>3. QED
    BY <1>1, <1>2 DEF FreshInv

\* What a save that is on its way is to change and goes back to is as it was.
LEMMA SameSaves ==
  ASSUME FreshInv, NEW e \in Pages,
         \A n \in SaveSlots : \/ save'[e][n] = NoSave
                              \/ /\ save'[e][n].base = save[e][n].base
                                 /\ save'[e][n].data = save[e][n].data
                                 /\ save'[e][n].touched = save[e][n].touched
                                 /\ save'[e][n].at = "sent" => save[e][n].at = "sent",
         version \in Nat
  PROVE  /\ \A n \in SaveSlots : save'[e][n].base <= version
         /\ file.kind = "config" => \A n \in SaveSlots : FreshSave(save'[e][n])
  <1>1. NoSave.base <= version /\ FreshSave(NoSave)
    BY DEF NoSave, FreshSave
  <1>2. ASSUME NEW n \in SaveSlots
        PROVE  /\ save'[e][n].base <= version
               /\ file.kind = "config" => FreshSave(save'[e][n])
    <2>1. CASE save'[e][n] = NoSave
      BY <1>1, <2>1
    <2>2. CASE save'[e][n] # NoSave
      BY <2>2 DEF FreshInv, FreshSave, Agrees
    <2>3. QED
      BY <2>1, <2>2
  <1>3. QED
    BY <1>2

LEMMA FreshInvariant == Spec => []FreshInv
  <1>1. Init => FreshInv
    BY DEF Init, FreshInv, FreshPage, FreshSave, FreshRead, NoSave, Opened, SentRead, NoRead, Blank
  <1>2. FlagdUiTypeOK /\ FreshInv /\ [Next]_vars => FreshInv'
    <2> SUFFICES ASSUME FlagdUiTypeOK, FreshInv, [Next]_vars PROVE FreshInv'
      OBVIOUS
    <2>0. /\ save \in [Pages -> [SaveSlots -> SaveType]]
          /\ reads \in [Pages -> [ReadSlots -> ReadType]]
          /\ shown \in [Pages -> Content(PageKinds)] /\ version \in Nat
          /\ base \in [Pages -> Nat] /\ touched \in [Pages -> SUBSET Flags]
      BY DEF FlagdUiTypeOK
    <2>1. ASSUME NEW e \in Pages, NEW n \in SaveSlots, NEW to \in {"open", "failed"},
                 save' = [save EXCEPT ![e][n].at = to],
                 file' = file \/ file'.kind = "empty",
                 UNCHANGED <<version, page, reads>>
          PROVE  FreshInv'
      <3>1. /\ save'[e][n].at = to /\ save'[e][n].base = save[e][n].base
            /\ save'[e][n].data = save[e][n].data /\ save'[e][n].touched = save[e][n].touched
            /\ \A k \in SaveSlots \ {n} : save'[e][k] = save[e][k]
            /\ \A o \in Pages \ {e} : save'[o] = save[o]
        BY <2>0, <2>1 DEF SaveType
      <3>2. /\ \A k \in SaveSlots : save'[e][k].base <= version
            /\ file.kind = "config" => \A k \in SaveSlots : FreshSave(save'[e][k])
        <4>1. \A k \in SaveSlots : /\ save'[e][k].base = save[e][k].base
                                   /\ save'[e][k].data = save[e][k].data
                                   /\ save'[e][k].touched = save[e][k].touched
                                   /\ save'[e][k].at = "sent" => save[e][k].at = "sent"
          BY <2>1, <3>1
        <4>2. QED
          BY <2>0, <4>1, SameSaves
      <3>3. CASE file'.kind = "empty"
        BY <2>1, <3>1, <3>2, <3>3 DEF FreshInv
      <3>4. CASE file' = file
        BY <2>1, <3>1, <3>2, <3>4, FreshSteps DEF FreshInv, FreshPage, Agrees
      <3>5. QED
        BY <2>1, <3>3, <3>4
    <2>2. ASSUME NEW e \in Pages, NEW n \in SaveSlots, OpenFile(e, n) PROVE FreshInv'
      BY <2>1, <2>2 DEF OpenFile, Blank
    <2>3. ASSUME NEW e \in Pages, NEW n \in SaveSlots, FailWrite(e, n) PROVE FreshInv'
      <3>1. /\ save' = [save EXCEPT ![e][n].at = "failed"]
            /\ UNCHANGED <<file, version, page, reads>>
        BY <2>3 DEF FailWrite
      <3>2. QED
        BY <2>1, <3>1
    <2>4. ASSUME NEW e \in Pages, NEW n \in SaveSlots, WriteFile(e, n) PROVE FreshInv'
      <3>1. /\ save'[e][n].at = "done" /\ save'[e][n].base = save[e][n].base
            /\ \A k \in SaveSlots \ {n} : save'[e][k] = save[e][k]
            /\ \A o \in Pages \ {e} : save'[o] = save[o]
        BY <2>4, SaveGoesOn DEF WriteFile
      <3>2. version' = version + 1 /\ UNCHANGED <<shown, reads>>
        BY <2>4 DEF WriteFile
      <3>3. \A o \in Pages : \A k \in SaveSlots :
              /\ save'[o][k].base = save[o][k].base
              /\ save'[o][k].base <= version /\ save[o][k].base \in Nat
        BY <2>0, <3>1 DEF FreshInv, SaveType
      <3>4. \A o \in Pages : \A i \in ReadSlots : reads[o][i].version <= version
                                                  /\ reads[o][i].version \in Nat
        BY <2>0 DEF FreshInv, ReadType
      <3>5. \A o \in Pages \ {e} : base'[o] <= version /\ base'[o] \in Nat
        BY <2>0, <2>4 DEF WriteFile, FreshInv
      <3>6. base'[e] <= version \/ (base'[e] = version' /\ shown[e] = save[e][n].data)
        BY <2>0, <2>4, <3>2 DEF WriteFile, FreshInv
      <3>7. base'[e] \in Nat
        BY <2>0, <2>4 DEF WriteFile
      <3>8. file'.kind = "config" => file' = save[e][n].data
        <4>1. save[e][n].data \in Content({"config", "null"}) /\ file \in Content(FileKinds)
          BY DEF FlagdUiTypeOK, SaveType
        <4>2. QED
          BY <2>4, <4>1, OverIsWhole DEF WriteFile
      <3>9. ASSUME NEW o \in Pages
            PROVE  /\ base'[o] <= version'
                   /\ \A k \in SaveSlots : save'[o][k].base <= version'
                   /\ \A i \in ReadSlots : reads'[o][i].version <= version'
        <4>1. version' \in Nat /\ version <= version'
          BY <2>0, <3>2
        <4>2. \A m \in Nat : m <= version => m <= version'
          BY <2>0, <4>1
        <4>3. base'[o] <= version'
          BY <3>5, <3>6, <3>7, <4>1, <4>2
        <4>4. \A k \in SaveSlots : save'[o][k].base \in Nat /\ save'[o][k].base <= version
          BY <3>3
        <4>5. \A i \in ReadSlots : reads'[o][i] = reads[o][i]
          BY <3>2
        <4>6. QED
          BY <3>4, <4>2, <4>3, <4>4, <4>5
      <3>10. ASSUME NEW o \in Pages, file'.kind = "config" PROVE FreshPage(o)'
        <4>1. base'[o] = version' => o = e /\ shown'[o] = file'
          BY <2>0, <3>2, <3>5, <3>6, <3>8, <3>10
        <4>2. QED
          BY <4>1 DEF FreshPage, Agrees
      <3>11. ASSUME NEW o \in Pages, NEW k \in SaveSlots PROVE FreshSave(save[o][k])'
        <4>1. save'[o][k].base # version'
          BY <2>0, <3>2, <3>3
        <4>2. QED
          BY <4>1 DEF FreshSave
      <3>12. ASSUME NEW o \in Pages, NEW i \in ReadSlots PROVE FreshRead(reads[o][i])'
        <4>1. reads'[o][i].version # version'
          BY <2>0, <3>2, <3>4
        <4>2. QED
          BY <4>1 DEF FreshRead
      <3>13. QED
        BY <3>9, <3>10, <3>11, <3>12 DEF FreshInv
    <2>5. ASSUME NEW e \in Pages, NEW i \in ReadSlots, ReadFile(e, i) PROVE FreshInv'
      <3> DEFINE r == [at |-> "back", got |-> Answered(file), version |-> version]
      <3>1. /\ reads'[e] = [reads[e] EXCEPT ![i] = r]
            /\ \A o \in Pages \ {e} : reads'[o] = reads[o]
            /\ UNCHANGED <<file, version, save, page>>
        BY <2>0, <2>5 DEF ReadFile
      <3>0. /\ \A n \in SaveSlots : save'[e][n].base <= version
            /\ file.kind = "config" => \A n \in SaveSlots : FreshSave(save'[e][n])
        BY <3>1 DEF FreshInv
      <3>2. reads'[e][i] = r /\ \A j \in ReadSlots \ {i} : reads'[e][j] = reads[e][j]
        BY <2>0, <3>1
      <3>3. FreshRead(r) /\ r.version <= version
        BY <2>0 DEF FreshRead, Agrees, Answered, Blank
      <3> HIDE DEF r
      <3>4. \A j \in ReadSlots : reads'[e][j].version <= version
        BY <3>2, <3>3 DEF FreshInv
      <3>5. file.kind = "config" => \A j \in ReadSlots : FreshRead(reads'[e][j])
        BY <3>2, <3>3 DEF FreshInv
      <3>6. QED
        <4>1. file.kind = "config" => FreshPage(e)'
          BY <3>1 DEF FreshInv, FreshPage, Agrees
        <4>2. base'[e] <= version
          BY <3>1 DEF FreshInv
        <4>3. QED
          BY <3>0, <3>1, <3>4, <3>5, <4>1, <4>2, FreshSteps
    <2>6. ASSUME NEW e \in Pages, NEW i \in ReadSlots, ReceiveFile(e, i) PROVE FreshInv'
      <3>1. /\ reads'[e] = [reads[e] EXCEPT ![i] = NoRead]
            /\ \A o \in Pages \ {e} : reads'[o] = reads[o]
            /\ UNCHANGED <<file, version, save>> /\ reads[e][i].at = "back"
        BY <2>0, <2>6 DEF ReceiveFile
      <3>2. reads'[e][i] = NoRead /\ \A j \in ReadSlots \ {i} : reads'[e][j] = reads[e][j]
        BY <2>0, <3>1
      <3>3. \A j \in ReadSlots : reads'[e][j].version <= version
        <4>1. NoRead.version <= version
          BY <2>0 DEF NoRead
        <4>2. \A j \in ReadSlots : reads[e][j].version <= version
          BY DEF FreshInv
        <4>3. QED
          BY <3>2, <4>1, <4>2
      <3>4. file.kind = "config" => \A j \in ReadSlots : FreshRead(reads'[e][j])
        BY <3>2 DEF FreshInv, FreshRead, NoRead
      <3>5. \A o \in Pages \ {e} : /\ base'[o] = base[o] /\ shown'[o] = shown[o]
                                   /\ touched'[o] = touched[o]
        BY <2>0, <2>6 DEF ReceiveFile
      <3>6. \/ base'[e] = base[e] /\ shown'[e] = shown[e] /\ touched'[e] = touched[e]
            \/ /\ base'[e] = reads[e][i].version /\ shown'[e] = reads[e][i].got
               /\ touched'[e] = {}
        BY <2>0, <2>6 DEF ReceiveFile
      <3>7. base'[e] <= version
        BY <3>6 DEF FreshInv
      <3>8. file.kind = "config" => FreshPage(e)'
        <4>1. reads[e][i].got.kind # "invalid"
          BY <2>0, ZenonT(60) DEF ReadType, Content
        <4>2. file.kind = "config" => FreshRead(reads[e][i])
          BY DEF FreshInv
        <4>3. QED
          BY <3>1, <3>6, <4>1, <4>2 DEF FreshInv, FreshPage, FreshRead, Agrees
      <3>9. QED
        <4>1. /\ \A n \in SaveSlots : save'[e][n].base <= version
              /\ file.kind = "config" => \A n \in SaveSlots : FreshSave(save'[e][n])
          BY <3>1 DEF FreshInv
        <4>2. QED
          BY <3>1, <3>3, <3>4, <3>5, <3>7, <3>8, <4>1, FreshSteps
    <2>7. ASSUME NEW e \in Pages, save' = Typed(e)
          PROVE  /\ \A n \in SaveSlots : save'[e][n].base <= version
                 /\ file.kind = "config" => \A n \in SaveSlots : FreshSave(save'[e][n])
                 /\ \A o \in Pages \ {e} : save'[o] = save[o]
      <3>1. /\ \A k \in SaveSlots : /\ save'[e][k].at = save[e][k].at
                                    /\ save'[e][k].data = save[e][k].data
                                    /\ save'[e][k].base = save[e][k].base
                                    /\ save'[e][k].touched = save[e][k].touched
            /\ \A o \in Pages \ {e} : save'[o] = save[o]
        BY <2>7, SavesAreTyped
      <3>2. QED
        BY <2>0, <3>1, SameSaves
    <2>8. ASSUME NEW e \in Pages, NEW f \in Flags, NEW v \in Variants, Edit(e, f, v)
          PROVE  FreshInv'
      <3>1. /\ UNCHANGED <<file, version, reads, base>> /\ save' = Typed(e)
            /\ shown'[e] = Chosen(e, f, v) /\ touched'[e] = touched[e] \cup {f}
            /\ \A o \in Pages \ {e} : shown'[o] = shown[o] /\ touched'[o] = touched[o]
            /\ shown[e].kind \in {"config", "invalid"}
        BY <2>0, <2>8 DEF Edit
      <3>2. \A g \in Flags \ {f} : Chosen(e, f, v).flags[g] = shown[e].flags[g]
        BY <2>0 DEF Chosen, Whole, Content, Configs
      <3>3. file.kind = "config" => FreshPage(e)'
        BY <3>1, <3>2 DEF FreshInv, FreshPage, Agrees
      <3>4. QED
        BY <2>7, <3>1, <3>3, FreshSteps DEF FreshInv
    <2>9. ASSUME NEW e \in Pages, Garble(e) PROVE FreshInv'
      <3>1. /\ UNCHANGED <<file, version, reads, base, touched>> /\ save' = Typed(e)
            /\ shown'[e].flags = shown[e].flags /\ shown[e].kind = "config"
            /\ \A o \in Pages \ {e} : shown'[o] = shown[o]
        BY <2>0, <2>9 DEF Garble, Content
      <3>2. file.kind = "config" => FreshPage(e)'
        BY <3>1 DEF FreshInv, FreshPage, Agrees
      <3>3. QED
        BY <2>7, <3>1, <3>2, FreshSteps DEF FreshInv
    <2>10. ASSUME NEW e \in Pages, NEW n \in SaveSlots, ClickSave(e, n) PROVE FreshInv'
      <3>1. /\ UNCHANGED <<file, version, page, reads>>
            /\ save'[e][n].base = base[e] /\ save'[e][n].touched = touched[e]
            /\ save'[e][n].data.kind = "config" => save'[e][n].data = shown[e]
            /\ \A k \in SaveSlots \ {n} : save'[e][k] = save[e][k]
            /\ \A o \in Pages \ {e} : save'[o] = save[o]
        BY <2>0, <2>10 DEF ClickSave, Blank
      <3>2. file.kind = "config" => \A k \in SaveSlots : FreshSave(save'[e][k])
        BY <3>1 DEF FreshInv, FreshPage, FreshSave, Agrees
      <3>3. \A k \in SaveSlots : save'[e][k].base <= version
        BY <3>1 DEF FreshInv
      <3>4. QED
        BY <3>1, <3>2, <3>3, FreshSteps DEF FreshInv, FreshPage, Agrees
    <2>16. ASSUME NEW e \in Pages, NEW n \in SaveSlots, ReceiveSaved(e, n) \/ LoseSave(e, n)
           PROVE  FreshInv'
      <3>1. /\ UNCHANGED <<file, version, shown, base, touched>>
            /\ save' = [save EXCEPT ![e][n] = NoSave]
            /\ UNCHANGED reads \/ ReadsTwice(e)
        BY <2>16 DEF ReceiveSaved, LoseSave
      <3>2. /\ save'[e][n] = NoSave /\ \A k \in SaveSlots \ {n} : save'[e][k] = save[e][k]
            /\ \A o \in Pages \ {e} : save'[o] = save[o]
        BY <3>1, InitialTypes, SaveIsSet, ZenonT(60)
      <3>3. /\ \A i \in ReadSlots : reads'[e][i] \in {reads[e][i], SentRead}
            /\ \A o \in Pages \ {e} : reads'[o] = reads[o]
        BY <3>1, TwoReads
      <3>4. /\ \A k \in SaveSlots : save'[e][k].base <= version
            /\ file.kind = "config" => \A k \in SaveSlots : FreshSave(save'[e][k])
        <4>1. \A k \in SaveSlots : save'[e][k] = NoSave \/ save'[e][k] = save[e][k]
          BY <3>2
        <4>2. QED
          BY <2>0, <4>1, SameSaves
      <3>5. \A i \in ReadSlots : reads'[e][i].version <= version
        <4>1. SentRead.version <= version
          BY <2>0 DEF SentRead, NoRead
        <4>2. \A i \in ReadSlots : reads[e][i].version <= version
          BY DEF FreshInv
        <4>3. QED
          BY <3>3, <4>1, <4>2
      <3>6. file.kind = "config" => \A i \in ReadSlots : FreshRead(reads'[e][i])
        BY <3>3 DEF FreshInv, FreshRead, SentRead, NoRead
      <3>7. QED
        BY <3>1, <3>2, <3>3, <3>4, <3>5, <3>6, FreshSteps DEF FreshInv, FreshPage, Agrees
    <2>17. ASSUME NEW e \in Pages, NEW i \in ReadSlots, LoseRead(e, i) PROVE FreshInv'
      <3>1. reads' = [reads EXCEPT ![e][i] = NoRead] /\ UNCHANGED <<file, version, page, save>>
        BY <2>17 DEF LoseRead
      <3>2. /\ reads'[e][i] = NoRead /\ \A j \in ReadSlots \ {i} : reads'[e][j] = reads[e][j]
            /\ \A o \in Pages \ {e} : reads'[o] = reads[o]
        BY <2>0, <3>1
      <3>3. \A j \in ReadSlots : reads'[e][j].version <= version
        <4>1. NoRead.version <= version
          BY <2>0 DEF NoRead
        <4>2. \A j \in ReadSlots : reads[e][j].version <= version
          BY DEF FreshInv
        <4>3. QED
          BY <3>2, <4>1, <4>2
      <3>4. file.kind = "config" => \A j \in ReadSlots : FreshRead(reads'[e][j])
        BY <3>2 DEF FreshInv, FreshRead, NoRead
      <3>5. QED
        BY <3>1, <3>2, <3>3, <3>4, FreshSteps DEF FreshInv, FreshPage, Agrees
    <2>11. ASSUME NEW e \in Pages, Reopen(e) PROVE FreshInv'
      <3>1. /\ UNCHANGED <<file, version, save, base>>
            /\ shown'[e] = Blank("none") /\ \A o \in Pages \ {e} : shown'[o] = shown[o]
            /\ \A o \in Pages \ {e} : touched'[o] = touched[o]
            /\ reads'[e] = Opened(e) /\ \A o \in Pages \ {e} : reads'[o] = reads[o]
        BY <2>0, <2>11 DEF Reopen
      <3>2. FreshPage(e)'
        BY <3>1 DEF FreshPage, Blank
      <3>3. \A i \in ReadSlots : reads'[e][i].version <= version /\ FreshRead(reads'[e][i])
        BY <2>0, <3>1 DEF FreshRead, Opened, SentRead, NoRead
      <3>4. QED
        BY <3>1, <3>2, <3>3, FreshSteps DEF FreshInv
    <2>12. ASSUME UNCHANGED <<file, version, save, page, reads>> PROVE FreshInv'
      BY <2>12 DEF FreshInv, FreshPage, FreshSave, FreshRead, Agrees
    <2>13. ASSUME NEW e \in Pages, NEW arrives \in BOOLEAN, EndSchema(e, arrives)
           PROVE  FreshInv'
      BY <2>12, <2>13 DEF EndSchema
    <2>14. CASE UNCHANGED vars
      BY <2>12, <2>14 DEF vars
    <2>15. QED
      BY <2>2, <2>3, <2>4, <2>5, <2>6, <2>8, <2>9, <2>10, <2>11, <2>13, <2>14, <2>16, <2>17
      DEF Next
  <1>3. QED
    BY <1>1, <1>2, FlagdUiTypeCorrect, PTL DEF Spec

\* A save overwrites no flag that its user left alone, unless its page was older than the
\* file when the save reached the server.
THEOREM FreshSavesKeepOthers == Spec => []FreshSaveKeepsOthers
  <1>1. FreshInv => FreshSaveKeepsOthers
    BY DEF FreshInv, FreshSave, Agrees, FreshSaveKeepsOthers
  <1>2. QED
    BY <1>1, FreshInvariant, PTL

-----------------------------------------------------------------------------
(* "Unsaved changes". *)

\* Nothing that an advanced page shows is only there.
Clean(e) == touched[e] = {} /\ shown[e].kind # "invalid"

\* Besides what UnmarkedIsSaved says: who reads shows nothing of his own, or is an
\* exception; and what a page shows while it saves is what it saves, unless it was
\* typed in since.
UnmarkedOf(e) ==
  /\ ~marked[e] /\ ~refused[e] /\ ~rash[e] => Clean(e) \/ shown[e] = last[e]
  /\ ~marked[e] /\ ~refused[e] /\ ~rash[e] /\ Reading(e) => Clean(e)
  /\ \A n \in SaveSlots :
       ~save[e][n].typed =>
         /\ save[e][n].at \in {"sent", "open"} => shown[e] = save[e][n].data \/ Clean(e)
         /\ save[e][n].at = "done" => Clean(e)

UnmarkedInv == \A e \in Advanced : UnmarkedOf(e)

\* A step of one page.
LEMMA UnmarkedSteps ==
  ASSUME UnmarkedInv, NEW e \in Pages, e \in Advanced => UnmarkedOf(e)',
         \A o \in Pages \ {e} : /\ marked'[o] = marked[o] /\ refused'[o] = refused[o]
                                /\ rash'[o] = rash[o],
         \A o \in Pages \ {e} : /\ touched'[o] = touched[o] /\ shown'[o] = shown[o]
                                /\ last'[o] = last[o] /\ reads'[o] = reads[o]
                                /\ save'[o] = save[o]
  PROVE  UnmarkedInv'
  <1>1. \A o \in Advanced : o \in Pages
    BY DEF Pages
  <1>2. ASSUME NEW o \in Advanced, o # e PROVE UnmarkedOf(o)'
    <2>1. o \in Pages \ {e} /\ UnmarkedOf(o)
      BY <1>1, <1>2 DEF UnmarkedInv
    <2>2. Clean(o)' = Clean(o) /\ Reading(o)' = Reading(o)
      BY <2>1 DEF Clean, Reading
    <2>3. QED
      BY <2>1, <2>2 DEF UnmarkedOf
  <1>3. QED
    BY <1>2 DEF UnmarkedInv

LEMMA UnmarkedInvariant == Spec => []UnmarkedInv
  <1>1. Init => UnmarkedInv
    BY DEF Init, UnmarkedInv, UnmarkedOf, Clean, NoSave, Blank, Pages
  <1>2. FlagdUiTypeOK /\ UnmarkedInv /\ [Next]_vars => UnmarkedInv'
    <2> SUFFICES ASSUME FlagdUiTypeOK, UnmarkedInv, [Next]_vars PROVE UnmarkedInv'
      OBVIOUS
    <2>0. /\ save \in [Pages -> [SaveSlots -> SaveType]]
          /\ reads \in [Pages -> [ReadSlots -> ReadType]]
          /\ shown \in [Pages -> Content(PageKinds)] /\ touched \in [Pages -> SUBSET Flags]
          /\ last \in [Pages -> Content({"config", "none", "error"})]
          /\ schema \in [Pages -> SchemaType]
      BY DEF FlagdUiTypeOK
    <2>b. /\ marked \in [Pages -> BOOLEAN] /\ refused \in [Pages -> BOOLEAN]
          /\ rash \in [Pages -> BOOLEAN]
      BY DEF FlagdUiTypeOK
    <2>1. ASSUME NEW e \in Pages, NEW n \in SaveSlots, NEW to \in {"open", "failed"},
                 save' = [save EXCEPT ![e][n].at = to], to = "open" => save[e][n].at = "sent",
                 UNCHANGED <<page, reads, refused>>
          PROVE  UnmarkedInv'
      <3>1. /\ save'[e][n].at = to /\ save'[e][n].data = save[e][n].data
            /\ save'[e][n].typed = save[e][n].typed
            /\ \A k \in SaveSlots \ {n} : save'[e][k] = save[e][k]
            /\ \A o \in Pages \ {e} : save'[o] = save[o]
        BY <2>0, <2>1 DEF SaveType
      <3>2. Clean(e)' = Clean(e) /\ Reading(e)' = Reading(e)
        BY <2>1 DEF Clean, Reading
      <3>3. e \in Advanced => UnmarkedOf(e)'
        BY <2>1, <3>1, <3>2 DEF UnmarkedInv, UnmarkedOf
      <3>4. QED
        BY <2>1, <3>1, <3>3, UnmarkedSteps
    <2>2. ASSUME NEW e \in Pages, NEW n \in SaveSlots, OpenFile(e, n) PROVE UnmarkedInv'
      BY <2>1, <2>2 DEF OpenFile
    <2>3. ASSUME NEW e \in Pages, NEW n \in SaveSlots, FailWrite(e, n) PROVE UnmarkedInv'
      BY <2>1, <2>3 DEF FailWrite
    <2>4. ASSUME NEW e \in Pages, NEW n \in SaveSlots, WriteFile(e, n) PROVE UnmarkedInv'
      <3>1. /\ save'[e][n].at = "done" /\ save'[e][n].typed = save[e][n].typed
            /\ \A k \in SaveSlots \ {n} : save'[e][k] = save[e][k]
            /\ \A o \in Pages \ {e} : save'[o] = save[o]
        BY <2>0, <2>4 DEF WriteFile, SaveType
      <3>2. /\ UNCHANGED <<shown, last, marked, rash, refused, reads>>
            /\ save[e][n].at = "open"
        BY <2>4 DEF WriteFile
      <3>3. /\ \/ touched'[e] = {} /\ shown[e] = save[e][n].data
               \/ touched'[e] = touched[e] /\ shown[e] # save[e][n].data
            /\ \A o \in Pages \ {e} : touched'[o] = touched[o]
        BY <2>0, <2>4 DEF WriteFile
      <3>4. shown[e] = save[e][n].data => shown[e].kind # "invalid"
        <4>1. save[e][n].data \in Content({"config", "null"})
          BY <2>0 DEF SaveType
        <4>2. QED
          BY <4>1 DEF Content
      <3>5. /\ Clean(e) => Clean(e)'
            /\ shown[e] = save[e][n].data => Clean(e)'
            /\ Reading(e)' = Reading(e)
        BY <3>2, <3>3, <3>4 DEF Clean, Reading
      <3>6. e \in Advanced => UnmarkedOf(e)'
        BY <3>1, <3>2, <3>5 DEF UnmarkedInv, UnmarkedOf
      <3>7. QED
        BY <3>1, <3>2, <3>3, <3>6, UnmarkedSteps
    <2>5. ASSUME NEW e \in Pages, NEW i \in ReadSlots, ReadFile(e, i) PROVE UnmarkedInv'
      <3>1. /\ \A o \in Pages \ {e} : reads'[o] = reads[o]
            /\ UNCHANGED <<save, page, refused>> /\ reads[e][i].at # "none"
        BY <2>0, <2>5 DEF ReadFile, FirstRead
      <3>2. Clean(e)' = Clean(e) /\ Reading(e)
        BY <3>1 DEF Clean, Reading
      <3>3. e \in Advanced => UnmarkedOf(e)'
        BY <3>1, <3>2 DEF UnmarkedInv, UnmarkedOf
      <3>4. QED
        BY <3>1, <3>3, UnmarkedSteps
    <2>6. ASSUME NEW e \in Pages, NEW i \in ReadSlots, ReceiveFile(e, i) PROVE UnmarkedInv'
      <3>1. /\ reads' = [reads EXCEPT ![e][i] = NoRead]
            /\ UNCHANGED <<save, marked, rash, refused>> /\ reads[e][i].at # "none"
        BY <2>6 DEF ReceiveFile
      <3>2. /\ \A o \in Pages \ {e} : reads'[o] = reads[o]
            /\ Reading(e)
        BY <2>0, <3>1 DEF Reading
      <3>3. \A o \in Pages \ {e} : /\ shown'[o] = shown[o] /\ touched'[o] = touched[o]
                                   /\ last'[o] = last[o]
        BY <2>0, <2>6 DEF ReceiveFile
      <3>4. reads[e][i].got.kind # "invalid"
        <4>1. reads[e][i].got \in Content({"config", "none", "error"})
          BY <2>0 DEF ReadType
        <4>2. QED
          BY <4>1 DEF Content
      <3>5. \/ shown'[e] = shown[e] /\ touched'[e] = touched[e]
            \/ touched'[e] = {} /\ shown'[e] = reads[e][i].got
        BY <2>0, <2>6 DEF ReceiveFile
      <3>6. \/ shown'[e] = shown[e] /\ Clean(e)' = Clean(e)
            \/ Clean(e)'
        BY <3>4, <3>5 DEF Clean
      <3>7. e \in Advanced => UnmarkedOf(e)'
        BY <3>1, <3>2, <3>6 DEF UnmarkedInv, UnmarkedOf
      <3>8. QED
        BY <3>1, <3>2, <3>3, <3>7, UnmarkedSteps
    <2>7. ASSUME NEW e \in Pages, NEW i \in ReadSlots, LoseRead(e, i) PROVE UnmarkedInv'
      <3>1. /\ \A o \in Pages \ {e} : reads'[o] = reads[o]
            /\ UNCHANGED <<save, page, refused>> /\ reads[e][i].at # "none"
        BY <2>0, <2>7 DEF LoseRead, FirstRead
      <3>2. Clean(e)' = Clean(e) /\ Reading(e)
        BY <3>1 DEF Clean, Reading
      <3>3. e \in Advanced => UnmarkedOf(e)'
        BY <3>1, <3>2 DEF UnmarkedInv, UnmarkedOf
      <3>4. QED
        BY <3>1, <3>3, UnmarkedSteps
    <2>8. ASSUME NEW e \in Pages, NEW f \in Flags, NEW v \in Variants, Edit(e, f, v)
          PROVE  UnmarkedInv'
      <3>1. /\ UNCHANGED <<reads, last, refused>> /\ save' = Typed(e)
            /\ shown'[e] = Chosen(e, f, v)
            /\ \A o \in Pages \ {e} : shown'[o] = shown[o] /\ touched'[o] = touched[o]
        BY <2>0, <2>8 DEF Edit
      <3>2. /\ e \in Advanced /\ ~marked'[e] => Chosen(e, f, v) = last[e]
            /\ \A o \in Pages \ {e} : marked'[o] = marked[o]
        BY <2>b, <2>8 DEF Edit
      <3>3. /\ e \in Advanced /\ ~rash'[e] => ~Reading(e)
            /\ \A o \in Pages \ {e} : rash'[o] = rash[o]
        BY <2>b, <2>8 DEF Edit
      <3>4. /\ \A n \in SaveSlots : save'[e][n].typed \/ save'[e][n].at = "none"
            /\ \A o \in Pages \ {e} : save'[o] = save[o]
        BY <3>1, SavesAreTyped
      <3>5. Reading(e)' = Reading(e)
        BY <3>1 DEF Reading
      <3>6. e \in Advanced => UnmarkedOf(e)'
        BY <3>1, <3>2, <3>3, <3>4, <3>5 DEF UnmarkedOf
      <3>7. QED
        BY <3>1, <3>2, <3>3, <3>4, <3>6, UnmarkedSteps
    <2>9. ASSUME NEW e \in Pages, Garble(e) PROVE UnmarkedInv'
      <3>1. /\ UNCHANGED <<reads, last, touched, rash, refused>> /\ save' = Typed(e)
            /\ \A o \in Pages \ {e} : shown'[o] = shown[o]
        BY <2>0, <2>9 DEF Garble
      <3>2. marked'[e] /\ \A o \in Pages \ {e} : marked'[o] = marked[o]
        BY <2>b, <2>9 DEF Garble
      <3>3. /\ \A n \in SaveSlots : save'[e][n].typed \/ save'[e][n].at = "none"
            /\ \A o \in Pages \ {e} : save'[o] = save[o]
        BY <3>1, SavesAreTyped
      <3>4. UnmarkedOf(e)'
        BY <3>2, <3>3 DEF UnmarkedOf
      <3>5. QED
        BY <3>1, <3>2, <3>3, <3>4, UnmarkedSteps
    <2>10. ASSUME NEW e \in Pages, NEW n \in SaveSlots, ClickSave(e, n) PROVE UnmarkedInv'
      <3>1. /\ UNCHANGED <<page, reads, refused>>
            /\ shown[e].kind = "config" => save'[e][n].data = shown[e]
            /\ save'[e][n].at = "sent"
            /\ \A k \in SaveSlots \ {n} : save'[e][k] = save[e][k]
            /\ \A o \in Pages \ {e} : save'[o] = save[o]
        BY <2>0, <2>10 DEF ClickSave
      <3>2. e \in Advanced => shown[e].kind = "config"
        BY <2>10, FlagdUiAssumption DEF ClickSave, Saveable
      <3>3. Clean(e)' = Clean(e) /\ Reading(e)' = Reading(e)
        BY <3>1 DEF Clean, Reading
      <3>4. e \in Advanced => UnmarkedOf(e)'
        BY <3>1, <3>2, <3>3 DEF UnmarkedInv, UnmarkedOf
      <3>5. QED
        BY <3>1, <3>4, UnmarkedSteps
    <2>11. ASSUME NEW e \in Pages, NEW n \in SaveSlots, ReceiveSaved(e, n) PROVE UnmarkedInv'
      <3>1. /\ UNCHANGED <<shown, last, touched>> /\ save[e][n].at \in {"done", "failed"}
            /\ save'[e][n].at = "none"
            /\ \A k \in SaveSlots \ {n} : save'[e][k] = save[e][k]
            /\ \A o \in Pages \ {e} : save'[o] = save[o]
        BY <2>0, <2>11 DEF ReceiveSaved, NoSave
      <3>2. \A o \in Pages \ {e} : reads'[o] = reads[o]
        BY <2>11, TwoReads DEF ReceiveSaved
      <3>3. /\ refused'[e] <=> save[e][n].at = "failed"
            /\ \A o \in Pages \ {e} : refused'[o] = refused[o]
        BY <2>b, <2>11 DEF ReceiveSaved
      <3>4. /\ rash'[e] = save[e][n].typed
            /\ \A o \in Pages \ {e} : marked'[o] = marked[o] /\ rash'[o] = rash[o]
        BY <2>b, <2>11 DEF ReceiveSaved
      <3>5. Clean(e)' = Clean(e)
        BY <3>1 DEF Clean
      <3>6. e \in Advanced => UnmarkedOf(e)'
        BY <3>1, <3>3, <3>4, <3>5 DEF UnmarkedInv, UnmarkedOf
      <3>7. QED
        BY <3>1, <3>2, <3>3, <3>4, <3>6, UnmarkedSteps
    <2>12. ASSUME NEW e \in Pages, NEW n \in SaveSlots, LoseSave(e, n) PROVE UnmarkedInv'
      <3>1. /\ UNCHANGED <<page, reads, refused>> /\ save'[e][n].at = "none"
            /\ \A k \in SaveSlots \ {n} : save'[e][k] = save[e][k]
            /\ \A o \in Pages \ {e} : save'[o] = save[o]
        BY <2>0, <2>12 DEF LoseSave, NoSave
      <3>2. Clean(e)' = Clean(e) /\ Reading(e)' = Reading(e)
        BY <3>1 DEF Clean, Reading
      <3>3. e \in Advanced => UnmarkedOf(e)'
        BY <3>1, <3>2 DEF UnmarkedInv, UnmarkedOf
      <3>4. QED
        BY <3>1, <3>3, UnmarkedSteps
    <2>13. ASSUME NEW e \in Pages, Reopen(e) PROVE UnmarkedInv'
      <3>1. /\ UNCHANGED save /\ \A n \in SaveSlots : save[e][n].at = "none"
            /\ touched'[e] = {} /\ shown'[e] = Blank("none")
            /\ \A o \in Pages \ {e} : /\ shown'[o] = shown[o] /\ last'[o] = last[o]
                                      /\ touched'[o] = touched[o] /\ reads'[o] = reads[o]
        BY <2>0, <2>13 DEF Reopen, Saving
      <3>2. \A o \in Pages \ {e} : /\ marked'[o] = marked[o] /\ rash'[o] = rash[o]
                                   /\ refused'[o] = refused[o]
        BY <2>b, <2>13 DEF Reopen
      <3>3. Clean(e)'
        BY <3>1 DEF Clean, Blank
      <3>4. e \in Advanced => UnmarkedOf(e)'
        BY <3>1, <3>3 DEF UnmarkedOf
      <3>5. QED
        BY <3>1, <3>2, <3>4, UnmarkedSteps
    <2>14. ASSUME UNCHANGED <<save, page, reads, refused>> PROVE UnmarkedInv'
      BY <2>14 DEF UnmarkedInv, UnmarkedOf, Clean, Reading
    <2>15. ASSUME NEW e \in Pages, NEW arrives \in BOOLEAN, EndSchema(e, arrives)
           PROVE  UnmarkedInv'
      BY <2>14, <2>15 DEF EndSchema
    <2>16. CASE UNCHANGED vars
      BY <2>14, <2>16 DEF vars
    <2>17. QED
      BY <2>2, <2>3, <2>4, <2>5, <2>6, <2>7, <2>8, <2>9, <2>10, <2>11, <2>12, <2>13, <2>15,
         <2>16 DEF Next
  <1>3. QED
    BY <1>1, <1>2, FlagdUiTypeCorrect, PTL DEF Spec

\* An advanced page does not hide changes that are not in the file, but for its three
\* exceptions.
THEOREM UnmarkedMeansSaved == Spec => []UnmarkedIsSaved
  <1>1. UnmarkedInv => UnmarkedIsSaved
    BY DEF UnmarkedInv, UnmarkedOf, Clean, UnmarkedIsSaved
  <1>2. QED
    BY <1>1, UnmarkedInvariant, PTL

=============================================================================
