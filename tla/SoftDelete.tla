----------------------------- MODULE SoftDelete -----------------------------
(***************************************************************************)
(* BaseRepository (src/shares/mongoose/base-repository.ts): soft deletion  *)
(* as a flag of the stored documents, a copy of it in every Mongoose       *)
(* document a caller holds, and the conditions of the reads.  Each caller  *)
(* works through a repository of its own over the same model and has one   *)
(* call on its document under way; calls of different callers interleave.  *)
(* Schemas derive from BaseSchemaClass.                                    *)
(***************************************************************************)
EXTENDS Integers

CONSTANTS
    Callers,
    Ids,
    IsSupportSoftDeleted,   \* IsSupportSoftDeleted[c]: the option of c's repository
    NoDoc

\* Of the other fields nothing depends.  Hydration puts the default into a
\* document stored without the flag, and save writes defaulted paths too.
Document == [id : Ids, isDeleted : BOOLEAN, path : {"clean", "default", "modified"}]

ASSUME OptionsAssumption ==
    IsSupportSoftDeleted \in [Callers -> BOOLEAN] /\ NoDoc \notin Document

VARIABLES
    flag,       \* flag[i]: isDeleted of document i as stored
    doc,        \* doc[c]: the document c has loaded
    pc,         \* pc[c]: where doc.save() is
    result,     \* result[c]: outcome of the last softDeleteOneByDoc of doc[c]
    call,       \* call[c]: the method that waits for doc.save()
    bare,       \* history: documents inserted without a flag
    hidden,     \* history: documents deleted and not restored by name since
    seen,       \* history: callers whose document was hidden since it was loaded
    failed      \* history: callers whose last doc.save() failed

vars == <<flag, doc, pc, result, call, bare, hidden, seen, failed>>

Flags == {"absent", "unset", "false", "true", "removed"}

TypeOK ==
    /\ flag \in [Ids -> Flags]
    /\ doc \in [Callers -> Document \cup {NoDoc}]
    /\ pc \in [Callers -> {"idle", "saving", "written", "unmatched"}]
    /\ \A c \in Callers : pc[c] # "idle" => doc[c] # NoDoc
    /\ result \in [Callers -> {"none", "resolved", "rejected"}]
    /\ call \in [Callers -> {"softDeleteOneByDoc", "save"}]
    /\ bare \subseteq Ids /\ hidden \subseteq Ids
    /\ seen \subseteq Callers /\ failed \subseteq Callers

Init ==
    /\ flag = [i \in Ids |-> "absent"]
    /\ doc = [c \in Callers |-> NoDoc]
    /\ pc = [c \in Callers |-> "idle"]
    /\ result = [c \in Callers |-> "none"]
    /\ call = [c \in Callers |-> "save"]
    /\ bare = {} /\ hidden = {} /\ seen = {} /\ failed = {}

Present == {i \in Ids : flag[i] \notin {"absent", "removed"}}

\* getConditionsAfterApplySoftDeleted over the caller's own condition on the
\* flag, if any: that one replaces isDeleted: false.
Matching(c, condition, excludeDeleted) ==
    {i \in Present :
        IF condition # "none" THEN flag[i] = condition
        ELSE IsSupportSoftDeleted[c] /\ excludeDeleted => flag[i] = "false"}

\* What aggregate works on: its condition is on _deleted, which no document has.
Aggregated(excludeDeleted) == Present

\* A document becomes hidden or not: what the callers that hold it get to know.
SetFlag(i, f) ==
    /\ flag' = [flag EXCEPT ![i] = f]
    /\ seen' = IF f \in {"true", "removed"}
               THEN seen \cup {c \in Callers : doc[c] # NoDoc /\ doc[c].id = i}
               ELSE seen

-----------------------------------------------------------------------------
(* Single calls to the model.                                               *)

\* createOne and createMany: the new document may bring a flag of its own.
Create(i, f) ==
    /\ flag[i] = "absent"
    /\ SetFlag(i, f)
    /\ hidden' = IF f = "true" THEN hidden \cup {i} ELSE hidden
    /\ UNCHANGED <<doc, pc, result, call, bare, failed>>

\* insertMany adds no flag; the schema does, unless the caller passes lean.
InsertMany(i, lean) ==
    /\ flag[i] = "absent"
    /\ SetFlag(i, IF lean THEN "unset" ELSE "false")
    /\ bare' = IF lean THEN bare \cup {i} ELSE bare
    /\ UNCHANGED <<doc, pc, result, call, hidden, failed>>

\* findOne, findMany and, with no condition and no exclusion, findById.
Find(c, condition, excludeDeleted) ==
    /\ pc[c] = "idle"
    /\ \E i \in Matching(c, condition, excludeDeleted) :
        /\ doc' = [doc EXCEPT ![c] =
                    [id |-> i, isDeleted |-> flag[i] = "true",
                     path |-> IF flag[i] = "unset" THEN "default" ELSE "clean"]]
        /\ seen' = IF flag[i] = "true" THEN seen \cup {c} ELSE seen \ {c}
    /\ result' = [result EXCEPT ![c] = "none"]
    /\ failed' = failed \ {c}
    /\ UNCHANGED <<flag, pc, call, bare, hidden>>

\* findOneAndUpdate and, without exclusion, updateMany, updateOne, updateById,
\* findByIdAndUpdate and bulkWrite, as far as they name the flag.
Update(c, condition, excludeDeleted, f) ==
    /\ \E i \in Matching(c, condition, excludeDeleted) :
        /\ SetFlag(i, f)
        /\ hidden' = IF f = "true" THEN hidden \cup {i} ELSE hidden \ {i}
    /\ UNCHANGED <<doc, pc, result, call, bare, failed>>

\* deleteOne and deleteMany do not look at the flag.
Delete(i) ==
    /\ i \in Present
    /\ SetFlag(i, "removed")
    /\ UNCHANGED <<doc, pc, result, call, bare, hidden, failed>>

-----------------------------------------------------------------------------
(* Calls on a document.                                                     *)

\* The flag is set and the document returned, but not saved.
BugSoftDelete(c) ==
    /\ pc[c] = "idle" /\ doc[c] # NoDoc /\ IsSupportSoftDeleted[c]
    /\ doc' = [doc EXCEPT ![c] = [@ EXCEPT !.isDeleted = TRUE, !.path = "modified"]]
    /\ result' = [result EXCEPT ![c] = "resolved"]
    /\ call' = [call EXCEPT ![c] = "softDeleteOneByDoc"]
    /\ UNCHANGED <<flag, pc, bare, hidden, seen, failed>>

SoftDelete(c) ==
    /\ pc[c] = "idle" /\ doc[c] # NoDoc
    /\ \/ /\ IsSupportSoftDeleted[c] /\ ~doc[c].isDeleted
          /\ doc' = [doc EXCEPT ![c] = [@ EXCEPT !.isDeleted = TRUE, !.path = "modified"]]
          /\ pc' = [pc EXCEPT ![c] = "saving"]
          /\ result' = [result EXCEPT ![c] = "none"]
       \/ /\ IsSupportSoftDeleted[c] /\ doc[c].isDeleted
          /\ result' = [result EXCEPT ![c] = "resolved"]
          /\ UNCHANGED <<doc, pc>>
       \/ /\ ~IsSupportSoftDeleted[c]
          /\ result' = [result EXCEPT ![c] = "rejected"]
          /\ UNCHANGED <<doc, pc>>
    /\ call' = [call EXCEPT ![c] = "softDeleteOneByDoc"]
    /\ UNCHANGED <<flag, bare, hidden, seen, failed>>

\* The caller has changed other fields of its document.
Save(c) ==
    /\ pc[c] = "idle" /\ doc[c] # NoDoc
    /\ pc' = [pc EXCEPT ![c] = "saving"]
    /\ call' = [call EXCEPT ![c] = "save"]
    /\ UNCHANGED <<flag, doc, result, bare, hidden, seen, failed>>

\* The whole document is written.
BugWriteWhole(c) ==
    /\ pc[c] = "saving" /\ doc[c].id \in Present
    /\ pc' = [pc EXCEPT ![c] = "written"]
    /\ SetFlag(doc[c].id, IF doc[c].isDeleted THEN "true" ELSE "false")
    /\ hidden' = IF doc[c].isDeleted THEN hidden \cup {doc[c].id} ELSE hidden
    /\ UNCHANGED <<doc, result, call, bare, failed>>

\* MongoDB applies what save has sent: the paths that are not clean.
Write(c) ==
    /\ pc[c] = "saving"
    /\ \/ /\ doc[c].id \in Present
          /\ pc' = [pc EXCEPT ![c] = "written"]
          /\ \/ /\ doc[c].path = "clean"
                /\ UNCHANGED <<flag, seen, hidden>>
             \/ /\ doc[c].path # "clean"
                /\ SetFlag(doc[c].id, IF doc[c].isDeleted THEN "true" ELSE "false")
                /\ hidden' = IF doc[c].isDeleted THEN hidden \cup {doc[c].id} ELSE hidden
       \/ /\ doc[c].id \notin Present
          /\ pc' = [pc EXCEPT ![c] = "unmatched"]
          /\ UNCHANGED <<flag, seen, hidden>>
    /\ UNCHANGED <<doc, result, call, bare, failed>>

Returns(c, r) ==
    /\ pc' = [pc EXCEPT ![c] = "idle"]
    /\ result' = IF call[c] = "save" THEN result ELSE [result EXCEPT ![c] = r]
    /\ UNCHANGED <<flag, call, bare, hidden, seen>>

SaveResolves(c) ==
    /\ pc[c] = "written"
    /\ doc' = [doc EXCEPT ![c].path = "clean"]
    /\ failed' = failed \ {c}
    /\ Returns(c, "resolved")

\* save fails before or after it took effect, or finds no document; the paths
\* are as before the call.
SaveRejects(c) ==
    /\ pc[c] # "idle"
    /\ failed' = failed \cup {c}
    /\ Returns(c, "rejected")
    /\ UNCHANGED doc

Conditions == {"none", "false", "true"}

Next ==
    \/ \E i \in Ids :
        \/ \E f \in {"false", "true"} : Create(i, f)
        \/ \E lean \in BOOLEAN : InsertMany(i, lean)
        \/ Delete(i)
    \/ \E c \in Callers :
        \/ \E condition \in Conditions, excludeDeleted \in BOOLEAN :
            \/ Find(c, condition, excludeDeleted)
            \/ \E f \in {"false", "true"} : Update(c, condition, excludeDeleted, f)
        \/ SoftDelete(c) \/ Save(c) \/ Write(c) \/ SaveResolves(c) \/ SaveRejects(c)

Spec == Init /\ [][Next]_vars

-----------------------------------------------------------------------------
(* Properties.                                                              *)

\* A soft deletion that resolves has hidden its document, or found it hidden,
\* since the caller loaded it, unless the last save of the caller's copy failed:
\* the flag is set in the copy by then, softDeleteOneByDoc takes it for deleted
\* and reports success without writing (doc.isDeleted !== true).
SoftDeleteTakesEffect ==
    \A c \in Callers : result[c] = "resolved" => c \in seen \cup failed

\* A deleted document stays hidden whatever copies of it callers hold and save,
\* until an update names its flag; only of a document inserted without a flag may
\* a stale copy, which holds the default, bring it back (save, insertMany).
DeletedStaysHidden ==
    \A i \in hidden \ bare : flag[i] \in {"true", "removed"}

\* The aggregations leave deleted documents out, as their parameter says.
AggregateExcludesDeleted ==
    \A i \in Aggregated(TRUE) : flag[i] # "true"

=============================================================================
