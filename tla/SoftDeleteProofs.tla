--------------------------- MODULE SoftDeleteProofs ---------------------------
(***************************************************************************)
(* Theorems about SoftDelete for every number of callers and documents.    *)
(***************************************************************************)
EXTENDS SoftDelete, TLAPS

LEMMA StepCases ==
  ASSUME [Next]_vars
  PROVE  \/ \E i \in Ids, f \in {"false", "true"} : Create(i, f)
         \/ \E i \in Ids, lean \in BOOLEAN : InsertMany(i, lean)
         \/ \E i \in Ids : Delete(i)
         \/ \E c \in Callers, condition \in Conditions, excludeDeleted \in BOOLEAN :
               Find(c, condition, excludeDeleted)
         \/ \E c \in Callers, condition \in Conditions, excludeDeleted \in BOOLEAN,
               f \in {"false", "true"} : Update(c, condition, excludeDeleted, f)
         \/ \E c \in Callers : SoftDelete(c) \/ Save(c) \/ Write(c)
                                \/ SaveResolves(c) \/ SaveRejects(c)
         \/ UNCHANGED vars
BY DEF Next

-----------------------------------------------------------------------------
(* Type correctness.                                                       *)

LEMMA TypeInit == Init => TypeOK
BY DEF Init, TypeOK, Flags

LEMMA MatchingPresent ==
  ASSUME NEW c, NEW condition, NEW excludeDeleted
  PROVE  Matching(c, condition, excludeDeleted) \subseteq Present
BY DEF Matching

LEMMA SetFlagType ==
  ASSUME TypeOK, NEW i \in Ids, NEW f \in Flags, SetFlag(i, f)
  PROVE  flag' \in [Ids -> Flags] /\ seen' \subseteq Callers
BY DEF TypeOK, SetFlag

\* What a call on a document makes of the copy.
LEMMA SoftDeleteDoc ==
  ASSUME TypeOK, NEW c \in Callers, SoftDelete(c)
  PROVE  /\ doc' \in [Callers -> Document \cup {NoDoc}] /\ doc'[c] # NoDoc
         /\ doc'[c].id = doc[c].id
         /\ \A b \in Callers \ {c} : doc'[b] = doc[b]
         /\ \/ doc' = doc
            \/ doc'[c].isDeleted /\ doc'[c].path = "modified"
<1>1. CASE doc' = doc
  BY <1>1 DEF SoftDelete, TypeOK
<1>2. CASE doc' = [doc EXCEPT ![c] = [@ EXCEPT !.isDeleted = TRUE, !.path = "modified"]]
  <2> DEFINE d == [doc[c] EXCEPT !.isDeleted = TRUE, !.path = "modified"]
  <2>1. doc[c] \in Document
    BY DEF SoftDelete, TypeOK
  <2>2. d \in Document /\ d.id = doc[c].id /\ d.isDeleted = TRUE /\ d.path = "modified"
    BY <2>1 DEF Document
  <2>3. d # NoDoc
    BY <2>2, OptionsAssumption
  <2>4. doc' = [doc EXCEPT ![c] = d]
    BY <1>2
  <2> HIDE DEF d
  <2> QED BY <2>2, <2>3, <2>4 DEF TypeOK
<1> QED BY <1>1, <1>2 DEF SoftDelete

LEMMA ResolvesDoc ==
  ASSUME TypeOK, NEW c \in Callers, SaveResolves(c)
  PROVE  /\ doc' \in [Callers -> Document \cup {NoDoc}]
         /\ doc[c] # NoDoc /\ doc'[c] # NoDoc
         /\ doc'[c].id = doc[c].id /\ doc'[c].isDeleted = doc[c].isDeleted
         /\ doc'[c].path = "clean"
         /\ \A b \in Callers \ {c} : doc'[b] = doc[b]
<1> DEFINE d == [doc[c] EXCEPT !.path = "clean"]
<1>1. doc[c] # NoDoc /\ doc[c] \in Document
  BY DEF SaveResolves, TypeOK
<1>2. d \in Document /\ d.id = doc[c].id /\ d.isDeleted = doc[c].isDeleted /\ d.path = "clean"
  BY <1>1 DEF Document
<1>3. d # NoDoc
  BY <1>2, OptionsAssumption
<1>4. doc' = [doc EXCEPT ![c] = d]
  BY DEF SaveResolves
<1> HIDE DEF d
<1> QED BY <1>1, <1>2, <1>3, <1>4 DEF TypeOK

LEMMA TypeStep == TypeOK /\ [Next]_vars => TypeOK'
<1> SUFFICES ASSUME TypeOK, [Next]_vars PROVE TypeOK'
  OBVIOUS
<1>1. ASSUME NEW i \in Ids, NEW f \in {"false", "true"}, Create(i, f) PROVE TypeOK'
  <2>1. flag' \in [Ids -> Flags] /\ seen' \subseteq Callers
    BY <1>1, SetFlagType DEF Create, Flags
  <2> QED BY <1>1, <2>1 DEF Create, TypeOK
<1>2. ASSUME NEW i \in Ids, NEW lean \in BOOLEAN, InsertMany(i, lean) PROVE TypeOK'
  <2>1. flag' \in [Ids -> Flags] /\ seen' \subseteq Callers
    BY <1>2, SetFlagType DEF InsertMany, Flags
  <2> QED BY <1>2, <2>1 DEF InsertMany, TypeOK
<1>3. ASSUME NEW i \in Ids, Delete(i) PROVE TypeOK'
  <2>1. flag' \in [Ids -> Flags] /\ seen' \subseteq Callers
    BY <1>3, SetFlagType DEF Delete, Flags
  <2> QED BY <1>3, <2>1 DEF Delete, TypeOK
<1>4. ASSUME NEW c \in Callers, NEW condition \in Conditions, NEW excludeDeleted \in BOOLEAN,
             Find(c, condition, excludeDeleted)
      PROVE  TypeOK'
  <2>1. PICK i \in Matching(c, condition, excludeDeleted) :
           /\ doc' = [doc EXCEPT ![c] =
                       [id |-> i, isDeleted |-> flag[i] = "true",
                        path |-> IF flag[i] = "unset" THEN "default" ELSE "clean"]]
           /\ seen' = IF flag[i] = "true" THEN seen \cup {c} ELSE seen \ {c}
    BY <1>4 DEF Find
  <2>2. i \in Ids
    BY <2>1, MatchingPresent DEF Present
  <2> DEFINE deleted == flag[i] = "true"
             path == IF flag[i] = "unset" THEN "default" ELSE "clean"
  <2>3. deleted \in BOOLEAN /\ path \in {"clean", "default", "modified"}
    OBVIOUS
  <2>4. doc' = [doc EXCEPT ![c] = [id |-> i, isDeleted |-> deleted, path |-> path]]
    BY <2>1
  <2> HIDE DEF deleted, path
  <2>5. doc' \in [Callers -> Document \cup {NoDoc}] /\ doc'[c] # NoDoc
        /\ \A b \in Callers \ {c} : doc'[b] = doc[b]
    BY <2>2, <2>3, <2>4, OptionsAssumption DEF TypeOK, Document
  <2> QED BY <1>4, <2>1, <2>5 DEF Find, TypeOK
<1>5. ASSUME NEW c \in Callers, NEW condition \in Conditions, NEW excludeDeleted \in BOOLEAN,
             NEW f \in {"false", "true"}, Update(c, condition, excludeDeleted, f)
      PROVE  TypeOK'
  <2>1. PICK i \in Matching(c, condition, excludeDeleted) :
           /\ SetFlag(i, f)
           /\ hidden' = IF f = "true" THEN hidden \cup {i} ELSE hidden \ {i}
    BY <1>5 DEF Update
  <2>2. i \in Ids
    BY <2>1, MatchingPresent DEF Present
  <2>3. flag' \in [Ids -> Flags] /\ seen' \subseteq Callers
    BY <2>1, <2>2, SetFlagType DEF Flags
  <2> QED BY <1>5, <2>1, <2>2, <2>3 DEF Update, TypeOK
<1>6. ASSUME NEW c \in Callers, SoftDelete(c) PROVE TypeOK'
  <2>1. /\ doc' \in [Callers -> Document \cup {NoDoc}] /\ doc'[c] # NoDoc
        /\ \A b \in Callers \ {c} : doc'[b] = doc[b]
    BY <1>6, SoftDeleteDoc
  <2>2. /\ pc' \in [Callers -> {"idle", "saving", "written", "unmatched"}]
        /\ \A b \in Callers \ {c} : pc'[b] = pc[b]
    BY <1>6 DEF SoftDelete, TypeOK
  <2>3. /\ result' \in [Callers -> {"none", "resolved", "rejected"}]
        /\ call' \in [Callers -> {"softDeleteOneByDoc", "save"}]
    BY <1>6 DEF SoftDelete, TypeOK
  <2>4. UNCHANGED <<flag, bare, hidden, seen, failed>>
    BY <1>6 DEF SoftDelete
  <2> QED BY <2>1, <2>2, <2>3, <2>4 DEF TypeOK
<1>7. ASSUME NEW c \in Callers, Save(c) PROVE TypeOK'
  BY <1>7 DEF Save, TypeOK
<1>8. ASSUME NEW c \in Callers, Write(c) PROVE TypeOK'
  <2>1. CASE flag' = flag /\ seen' = seen /\ hidden' = hidden
    BY <1>8, <2>1 DEF Write, TypeOK
  <2>2. CASE /\ doc[c].id \in Present
             /\ SetFlag(doc[c].id, IF doc[c].isDeleted THEN "true" ELSE "false")
             /\ hidden' = IF doc[c].isDeleted THEN hidden \cup {doc[c].id} ELSE hidden
    <3>1. doc[c].id \in Ids
      BY <2>2 DEF Present
    <3>2. flag' \in [Ids -> Flags] /\ seen' \subseteq Callers
      BY <2>2, <3>1, SetFlagType DEF Flags
    <3> QED BY <1>8, <2>2, <3>1, <3>2 DEF Write, TypeOK
  <2> QED BY <1>8, <2>1, <2>2 DEF Write
<1>9. ASSUME NEW c \in Callers, SaveResolves(c) PROVE TypeOK'
  BY <1>9, ResolvesDoc DEF SaveResolves, Returns, TypeOK
<1>10. ASSUME NEW c \in Callers, SaveRejects(c) PROVE TypeOK'
  BY <1>10 DEF SaveRejects, Returns, TypeOK
<1>11. CASE UNCHANGED vars
  BY <1>11 DEF vars, TypeOK
<1> QED BY <1>1, <1>2, <1>3, <1>4, <1>5, <1>6, <1>7, <1>8, <1>9, <1>10, <1>11, StepCases

\* The collection and the callers' documents keep their types.
THEOREM TypeCorrect == Spec => []TypeOK
BY TypeInit, TypeStep, PTL DEF Spec

-----------------------------------------------------------------------------
(* A soft deletion that resolves.                                          *)

\* What a caller's copy says, and what has become of the document.
Copy(c) ==
    /\ doc[c] # NoDoc =>
          /\ doc[c].path = "modified" => doc[c].isDeleted
          /\ doc[c].isDeleted =>
                /\ doc[c].path = "clean" => c \in seen
                /\ pc[c] = "written" /\ doc[c].path # "clean" => c \in seen
                /\ pc[c] = "idle" => c \in seen \cup failed
    /\ pc[c] # "idle" /\ call[c] = "softDeleteOneByDoc" => doc[c].isDeleted
    /\ result[c] = "resolved" =>
          doc[c] # NoDoc /\ doc[c].isDeleted /\ c \in seen \cup failed

EffectInv == \A c \in Callers : Copy(c)

LEMMA EffectInit == Init => EffectInv
BY DEF Init, EffectInv, Copy

\* A change of the collection leaves the copies as they are and forgets nothing.
LEMMA CopyStays ==
  ASSUME NEW c, Copy(c), doc'[c] = doc[c], pc'[c] = pc[c], result'[c] = result[c],
         call'[c] = call[c], c \in seen => c \in seen', c \in failed => c \in failed'
  PROVE  Copy(c)'
BY DEF Copy

LEMMA EffectStep == TypeOK /\ EffectInv /\ [Next]_vars => EffectInv'
<1> SUFFICES ASSUME TypeOK, EffectInv, [Next]_vars, NEW c \in Callers PROVE Copy(c)'
  BY DEF EffectInv
<1>0. Copy(c)
  BY DEF EffectInv
<1>1. ASSUME NEW i \in Ids, NEW f \in {"false", "true"}, Create(i, f) PROVE Copy(c)'
  BY <1>0, <1>1, CopyStays DEF Create, SetFlag
<1>2. ASSUME NEW i \in Ids, NEW lean \in BOOLEAN, InsertMany(i, lean) PROVE Copy(c)'
  BY <1>0, <1>2, CopyStays DEF InsertMany, SetFlag
<1>3. ASSUME NEW i \in Ids, Delete(i) PROVE Copy(c)'
  BY <1>0, <1>3, CopyStays DEF Delete, SetFlag
<1>4. ASSUME NEW b \in Callers, NEW condition \in Conditions, NEW excludeDeleted \in BOOLEAN,
             Find(b, condition, excludeDeleted)
      PROVE  Copy(c)'
  <2>1. CASE b # c
    <3>1. /\ doc'[c] = doc[c] /\ pc'[c] = pc[c] /\ result'[c] = result[c] /\ call'[c] = call[c]
          /\ c \in seen => c \in seen'
          /\ c \in failed => c \in failed'
      BY <1>4, <2>1 DEF Find, TypeOK
    <3> QED BY <1>0, <3>1, CopyStays
  <2>2. CASE b = c
    <3>1. PICK i \in Matching(c, condition, excludeDeleted) :
             /\ doc' = [doc EXCEPT ![c] =
                         [id |-> i, isDeleted |-> flag[i] = "true",
                          path |-> IF flag[i] = "unset" THEN "default" ELSE "clean"]]
             /\ seen' = IF flag[i] = "true" THEN seen \cup {c} ELSE seen \ {c}
      BY <1>4, <2>2 DEF Find
    <3> DEFINE deleted == flag[i] = "true"
               path == IF flag[i] = "unset" THEN "default" ELSE "clean"
    <3>2. (deleted => c \in seen' /\ path = "clean") /\ path # "modified"
      BY <3>1
    <3>3. doc' = [doc EXCEPT ![c] = [id |-> i, isDeleted |-> deleted, path |-> path]]
      BY <3>1
    <3> HIDE DEF deleted, path
    <3>4. doc'[c].isDeleted = deleted /\ doc'[c].path = path
      BY <3>3 DEF TypeOK
    <3>5. pc'[c] = "idle" /\ result'[c] = "none"
      BY <1>4, <2>2 DEF Find, TypeOK
    <3> QED BY <3>2, <3>4, <3>5 DEF Copy
  <2> QED BY <2>1, <2>2
<1>5. ASSUME NEW b \in Callers, NEW condition \in Conditions, NEW excludeDeleted \in BOOLEAN,
             NEW f \in {"false", "true"}, Update(b, condition, excludeDeleted, f)
      PROVE  Copy(c)'
  BY <1>0, <1>5, CopyStays DEF Update, SetFlag
<1>6. ASSUME NEW b \in Callers, SoftDelete(b) PROVE Copy(c)'
  <2>1. CASE b # c
    <3>1. /\ doc'[c] = doc[c] /\ pc'[c] = pc[c] /\ result'[c] = result[c] /\ call'[c] = call[c]
          /\ seen' = seen /\ failed' = failed
      BY <1>6, <2>1, SoftDeleteDoc DEF SoftDelete, TypeOK
    <3> QED BY <1>0, <3>1, CopyStays
  <2>2. CASE b = c
    <3>1. /\ pc[c] = "idle" /\ doc[c] # NoDoc /\ doc'[c] # NoDoc
          /\ seen' = seen /\ failed' = failed
      BY <1>6, <2>2, SoftDeleteDoc DEF SoftDelete
    <3>2. CASE ~doc[c].isDeleted /\ doc' # doc
      <4>1. doc'[c].isDeleted /\ doc'[c].path = "modified"
        BY <1>6, <2>2, <3>2, SoftDeleteDoc
      <4>2. pc'[c] = "saving" /\ result'[c] = "none"
        BY <1>6, <2>2, <3>2 DEF SoftDelete, TypeOK
      <4> QED BY <4>1, <4>2 DEF Copy
    <3>3. CASE doc' = doc /\ pc' = pc
      <4>1. result'[c] = "resolved" => doc[c].isDeleted
        BY <1>6, <2>2, <3>3 DEF SoftDelete, TypeOK
      <4> QED BY <1>0, <3>1, <3>3, <4>1 DEF Copy
    <3>4. CASE pc'[c] = "saving" /\ doc' = doc
      <4>1. doc[c].path # "modified" \/ doc[c].isDeleted
        BY <1>0, <3>1 DEF Copy
      <4>2. ~doc[c].isDeleted /\ doc' = [doc EXCEPT ![c] = [@ EXCEPT !.isDeleted = TRUE, !.path = "modified"]]
        BY <1>6, <2>2, <3>1, <3>4 DEF SoftDelete
      <4>3. doc[c] \in Document /\ doc'[c] = [doc[c] EXCEPT !.isDeleted = TRUE, !.path = "modified"]
        BY <3>1, <4>2 DEF TypeOK
      <4>4. doc'[c].isDeleted
        BY <4>3 DEF Document
      <4> QED BY <3>4, <4>2, <4>4
    <3> QED BY <1>6, <2>2, <3>1, <3>2, <3>3, <3>4 DEF SoftDelete, TypeOK
  <2> QED BY <2>1, <2>2
<1>7. ASSUME NEW b \in Callers, Save(b) PROVE Copy(c)'
  <2>1. CASE b # c
    BY <1>0, <1>7, <2>1, CopyStays DEF Save, TypeOK
  <2>2. CASE b = c
    <3>1. /\ doc' = doc /\ pc'[c] = "saving" /\ call'[c] = "save" /\ result' = result
          /\ seen' = seen /\ failed' = failed
      BY <1>7, <2>2 DEF Save, TypeOK
    <3> QED BY <1>0, <3>1 DEF Copy
  <2> QED BY <2>1, <2>2
<1>8. ASSUME NEW b \in Callers, Write(b) PROVE Copy(c)'
  <2>1. /\ doc' = doc /\ result' = result /\ call' = call /\ failed' = failed
        /\ \A a \in Callers \ {b} : pc'[a] = pc[a]
        /\ c \in seen => c \in seen'
    BY <1>8 DEF Write, TypeOK, SetFlag
  <2>2. CASE b # c
    BY <1>0, <2>1, <2>2, CopyStays
  <2>3. CASE b = c
    <3>1. doc[c] # NoDoc /\ pc[c] = "saving" /\ pc'[c] # "idle"
      BY <1>8, <2>3 DEF Write, TypeOK
    <3>2. pc'[c] = "written" /\ doc[c].path # "clean" /\ doc[c].isDeleted => c \in seen'
      BY <1>8, <2>3, <3>1 DEF Write, TypeOK, SetFlag
    <3> QED BY <1>0, <2>1, <3>1, <3>2 DEF Copy
  <2> QED BY <2>2, <2>3
<1>9. ASSUME NEW b \in Callers, SaveResolves(b) PROVE Copy(c)'
  <2>1. CASE b # c
    <3>1. /\ doc'[c] = doc[c] /\ pc'[c] = pc[c] /\ result'[c] = result[c] /\ call'[c] = call[c]
          /\ seen' = seen
          /\ c \in failed => c \in failed'
      BY <1>9, <2>1, ResolvesDoc DEF SaveResolves, Returns, TypeOK
    <3> QED BY <1>0, <3>1, CopyStays
  <2>2. CASE b = c
    <3>1. /\ doc[c] # NoDoc /\ doc'[c] # NoDoc
          /\ doc'[c].isDeleted = doc[c].isDeleted /\ doc'[c].path = "clean"
      BY <1>9, <2>2, ResolvesDoc
    <3>2. /\ pc[c] = "written" /\ pc'[c] = "idle" /\ seen' = seen /\ call' = call
          /\ result'[c] = IF call[c] = "save" THEN result[c] ELSE "resolved"
      BY <1>9, <2>2 DEF SaveResolves, Returns, TypeOK
    <3>3. call[c] \in {"softDeleteOneByDoc", "save"}
      BY DEF TypeOK
    <3>4. doc[c].isDeleted => c \in seen
      BY <1>0, <3>1, <3>2 DEF Copy
    <3>5. result'[c] = "resolved" => doc[c].isDeleted
      BY <1>0, <3>2, <3>3 DEF Copy
    <3> QED BY <3>1, <3>2, <3>4, <3>5 DEF Copy
  <2> QED BY <2>1, <2>2
<1>10. ASSUME NEW b \in Callers, SaveRejects(b) PROVE Copy(c)'
  <2>1. CASE b # c
    BY <1>0, <1>10, <2>1, CopyStays DEF SaveRejects, Returns, TypeOK
  <2>2. CASE b = c
    <3>1. /\ doc' = doc /\ pc'[c] = "idle" /\ c \in failed' /\ seen' = seen /\ call' = call
          /\ result'[c] \in {result[c], "rejected"}
      BY <1>10, <2>2 DEF SaveRejects, Returns, TypeOK
    <3> QED BY <1>0, <3>1 DEF Copy
  <2> QED BY <2>1, <2>2
<1>11. CASE UNCHANGED vars
  BY <1>0, <1>11, CopyStays DEF vars
<1> QED BY <1>1, <1>2, <1>3, <1>4, <1>5, <1>6, <1>7, <1>8, <1>9, <1>10, <1>11, StepCases

LEMMA EffectState == EffectInv => SoftDeleteTakesEffect
BY DEF EffectInv, Copy, SoftDeleteTakesEffect

\* A soft deletion that resolves found or made the document hidden, unless the
\* last save of the copy failed.
THEOREM DeletionTakesEffect == Spec => []SoftDeleteTakesEffect
<1>1. Init => TypeOK /\ EffectInv
  BY TypeInit, EffectInit
<1>2. TypeOK /\ EffectInv /\ [Next]_vars => (TypeOK /\ EffectInv)'
  BY TypeStep, EffectStep
<1> QED BY <1>1, <1>2, EffectState, PTL DEF Spec

-----------------------------------------------------------------------------
(* Deleted documents stay hidden.                                          *)

\* Defaults come from documents inserted without a flag, and only from them.
HideInv ==
    /\ \A i \in hidden \cup bare : flag[i] # "absent"
    /\ \A i \in Ids : flag[i] = "unset" => i \in bare
    /\ \A i \in hidden \ bare : flag[i] \in {"true", "removed"}
    /\ \A c \in Callers : doc[c] # NoDoc =>
          /\ doc[c].path = "default" => doc[c].id \in bare
          /\ doc[c].path = "modified" => doc[c].isDeleted

LEMMA HideInit == Init => HideInv
BY DEF Init, HideInv

LEMMA HideStep == TypeOK /\ HideInv /\ [Next]_vars => HideInv'
<1> SUFFICES ASSUME TypeOK, HideInv, [Next]_vars PROVE HideInv'
  OBVIOUS
<1>0. hidden \subseteq Ids /\ bare \subseteq Ids
  BY DEF TypeOK
<1>1. ASSUME NEW i \in Ids, NEW f \in {"false", "true"}, Create(i, f) PROVE HideInv'
  <2>1. flag[i] = "absent" /\ flag' = [flag EXCEPT ![i] = f] /\ doc' = doc /\ bare' = bare
        /\ hidden' = IF f = "true" THEN hidden \cup {i} ELSE hidden
    BY <1>1 DEF Create, SetFlag
  <2> QED BY <1>0, <2>1 DEF HideInv, TypeOK
<1>2. ASSUME NEW i \in Ids, NEW lean \in BOOLEAN, InsertMany(i, lean) PROVE HideInv'
  <2>1. flag[i] = "absent" /\ flag' = [flag EXCEPT ![i] = IF lean THEN "unset" ELSE "false"]
        /\ doc' = doc /\ hidden' = hidden
        /\ bare' = IF lean THEN bare \cup {i} ELSE bare
    BY <1>2 DEF InsertMany, SetFlag
  <2> QED BY <1>0, <2>1 DEF HideInv, TypeOK
<1>3. ASSUME NEW i \in Ids, Delete(i) PROVE HideInv'
  <2>1. flag' = [flag EXCEPT ![i] = "removed"] /\ doc' = doc /\ hidden' = hidden /\ bare' = bare
    BY <1>3 DEF Delete, SetFlag
  <2> QED BY <1>0, <2>1 DEF HideInv, TypeOK
<1>4. ASSUME NEW c \in Callers, NEW condition \in Conditions, NEW excludeDeleted \in BOOLEAN,
             Find(c, condition, excludeDeleted)
      PROVE  HideInv'
  <2>1. PICK i \in Matching(c, condition, excludeDeleted) :
           doc' = [doc EXCEPT ![c] =
                    [id |-> i, isDeleted |-> flag[i] = "true",
                     path |-> IF flag[i] = "unset" THEN "default" ELSE "clean"]]
    BY <1>4 DEF Find
  <2>2. i \in Ids
    BY <2>1, MatchingPresent DEF Present
  <2> DEFINE deleted == flag[i] = "true"
             path == IF flag[i] = "unset" THEN "default" ELSE "clean"
  <2>3. path # "modified" /\ (path = "default" => i \in bare)
    BY <2>2 DEF HideInv
  <2>4. doc' = [doc EXCEPT ![c] = [id |-> i, isDeleted |-> deleted, path |-> path]]
    BY <2>1
  <2> HIDE DEF deleted, path
  <2>5. /\ doc'[c].id = i /\ doc'[c].path = path
        /\ \A b \in Callers \ {c} : doc'[b] = doc[b]
    BY <2>4 DEF TypeOK
  <2>6. flag' = flag /\ bare' = bare /\ hidden' = hidden
    BY <1>4 DEF Find
  <2> QED BY <2>3, <2>5, <2>6 DEF HideInv
<1>5. ASSUME NEW c \in Callers, NEW condition \in Conditions, NEW excludeDeleted \in BOOLEAN,
             NEW f \in {"false", "true"}, Update(c, condition, excludeDeleted, f)
      PROVE  HideInv'
  <2>1. PICK i \in Matching(c, condition, excludeDeleted) :
           /\ flag' = [flag EXCEPT ![i] = f]
           /\ hidden' = IF f = "true" THEN hidden \cup {i} ELSE hidden \ {i}
    BY <1>5 DEF Update, SetFlag
  <2>2. i \in Ids
    BY <2>1, MatchingPresent DEF Present
  <2>3. doc' = doc /\ bare' = bare
    BY <1>5 DEF Update
  <2> QED BY <1>0, <2>1, <2>2, <2>3 DEF HideInv, TypeOK
<1>6. ASSUME NEW c \in Callers, SoftDelete(c) PROVE HideInv'
  <2>1. /\ doc[c] # NoDoc /\ flag' = flag /\ bare' = bare /\ hidden' = hidden
    BY <1>6 DEF SoftDelete
  <2>2. /\ doc'[c].id = doc[c].id
        /\ \A b \in Callers \ {c} : doc'[b] = doc[b]
        /\ \/ doc' = doc
           \/ doc'[c].isDeleted /\ doc'[c].path = "modified"
    BY <1>6, SoftDeleteDoc
  <2> QED BY <2>1, <2>2 DEF HideInv
<1>7. ASSUME NEW c \in Callers, Save(c) PROVE HideInv'
  BY <1>7 DEF Save, HideInv
<1>8. ASSUME NEW c \in Callers, Write(c) PROVE HideInv'
  <2>1. doc[c] # NoDoc /\ doc' = doc /\ bare' = bare
    BY <1>8 DEF Write, TypeOK
  <2>2. CASE flag' = flag /\ hidden' = hidden
    BY <2>1, <2>2 DEF HideInv
  <2>3. CASE /\ doc[c].id \in Present /\ doc[c].path # "clean"
             /\ flag' = [flag EXCEPT ![doc[c].id] = IF doc[c].isDeleted THEN "true" ELSE "false"]
             /\ hidden' = IF doc[c].isDeleted THEN hidden \cup {doc[c].id} ELSE hidden
    <3>1. doc[c].id \in Ids
      BY <2>3 DEF Present
    <3>2. doc[c].path \in {"default", "modified"}
      BY <2>1, <2>3 DEF TypeOK, Document
    <3>3. CASE doc[c].isDeleted
      BY <1>0, <2>1, <2>3, <3>1, <3>3 DEF HideInv, TypeOK
    <3>4. CASE ~doc[c].isDeleted
      <4>1. doc[c].id \in bare
        BY <2>1, <3>2, <3>4 DEF HideInv
      <4> QED BY <1>0, <2>1, <2>3, <3>1, <3>4, <4>1 DEF HideInv, TypeOK
    <3> QED BY <3>3, <3>4
  <2> QED BY <1>8, <2>2, <2>3 DEF Write, SetFlag
<1>9. ASSUME NEW c \in Callers, SaveResolves(c) PROVE HideInv'
  <2>1. /\ doc[c] # NoDoc /\ doc'[c].path = "clean" /\ \A b \in Callers \ {c} : doc'[b] = doc[b]
    BY <1>9, ResolvesDoc
  <2>2. flag' = flag /\ bare' = bare /\ hidden' = hidden
    BY <1>9 DEF SaveResolves, Returns
  <2> QED BY <2>1, <2>2 DEF HideInv
<1>10. ASSUME NEW c \in Callers, SaveRejects(c) PROVE HideInv'
  BY <1>10 DEF SaveRejects, Returns, HideInv
<1>11. CASE UNCHANGED vars
  BY <1>11 DEF vars, HideInv
<1> QED BY <1>1, <1>2, <1>3, <1>4, <1>5, <1>6, <1>7, <1>8, <1>9, <1>10, <1>11, StepCases

\* A deleted document comes back only by an update that names its flag, or by a
\* stale copy of a document inserted without one.
THEOREM StaysHidden == Spec => []DeletedStaysHidden
<1>1. Init => TypeOK /\ HideInv
  BY TypeInit, HideInit
<1>2. TypeOK /\ HideInv /\ [Next]_vars => (TypeOK /\ HideInv)'
  BY TypeStep, HideStep
<1>3. HideInv => DeletedStaysHidden
  BY DEF HideInv, DeletedStaysHidden
<1> QED BY <1>1, <1>2, <1>3, PTL DEF Spec

=============================================================================
