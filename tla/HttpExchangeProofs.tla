------------------------- MODULE HttpExchangeProofs -------------------------
(* Proofs of the safety properties of HttpExchange.                         *)
EXTENDS HttpExchange, TLAPS

-----------------------------------------------------------------------------
(* The inductive invariant.                                                 *)

\* What holds of every response, whatever its handler does.
Sound(w) ==
    /\ ~HeadersSent(w) => w.sent = <<>> /\ ~w.ended
    /\ w.sentStatus \in NoBody => w.sent = <<>>
    /\ w.ended /\ ~w.again => Delivers(w, w.responseBody)
    /\ Items \in Elements(w.sent) => w.pageHeaders
    /\ w.pageHeaders => Elements(w.sent) \subseteq {Items, Error}

\* A recorded chunk that is not a buffer.
Spoilt(w) == Elements(w.chunks) \cap Texts # {}

\* The recording keeps up with what is sent until the response ends, or a text
\* among the chunks keeps it from ending.
Recorded(r) ==
    /\ stage[r] = "new" => ~res[r].ended
    /\ stage[r] \in {"new", "handling"} =>
           ~res[r].pageHeaders /\ (res[r].ended \/ Delivers(res[r], res[r].chunks))
    /\ alive /\ stage[r] = "thrown" =>
           res[r].ended \/ Delivers(res[r], res[r].chunks) \/ Spoilt(res[r])

\* The status is the one sent, unless it was set later.
Agrees(w) == HeadersSent(w) => w.late \/ w.sentStatus = w.status

\* Only a filter leaves a response without a status, and then the process dies.
Status(r) ==
    alive =>
        /\ stage[r] # "caught" => res[r].status \in 100..599
        /\ Agrees(res[r])

ResponseInv == \A r \in Requests : Sound(res[r]) /\ Recorded(r) /\ Status(r)

\* Entries of the log name requests that arrived and responses that ended.
Entries ==
    \A i \in 1..Len(log) :
        LET r == log[i].request
        IN  /\ stage[r] # "new" /\ log[i].id = id[r]
            /\ log[i].kind = "HTTP Response" => closing[r] = "finish" /\ res[r].ended

Ids ==
    /\ \A r \in Requests : stage[r] # "new" => id[r] < correlated
    /\ \A q, r \in Requests : stage[q] # "new" /\ stage[r] # "new" /\ id[q] = id[r] => q = r

HttpInv ==
    /\ TypeOK /\ ResponseInv /\ StatusOfException /\ CrashHasCulprit
    /\ Entries /\ Ids /\ LogMatchesBody /\ LogPairs

-----------------------------------------------------------------------------
(* The calls on a response.                                                 *)

\* Append adds one element.
LEMMA ElementsOfAppend ==
    ASSUME NEW S, NEW s \in Seq(S), NEW e \in S
    PROVE  Elements(Append(s, e)) = Elements(s) \cup {e}
BY DEF Elements

\* So does Push, unless there is none.
LEMMA PushedElements ==
    ASSUME NEW s \in Seq(Chunks), NEW chunk \in Chunks \cup {Unset}
    PROVE  /\ Push(s, chunk) \in Seq(Chunks)
           /\ Elements(Push(s, chunk)) = Elements(s) \cup ({chunk} \ {Unset})
<1>1. Unset \notin Chunks
  BY HttpAssumption
<1>2. CASE chunk = Unset
  BY <1>2 DEF Push
<1>3. CASE chunk # Unset
  <2>1. chunk \in Chunks /\ Push(s, chunk) = Append(s, chunk)
    BY <1>3 DEF Push
  <2> QED
    BY <1>3, <2>1, ElementsOfAppend
<1> QED
  BY <1>2, <1>3

\* Statuses are numbers, and so none is Unset.
LEMMA StatusesAreSet ==
    /\ \A s \in 100..599 : s # Unset
    /\ Unset \notin NoBody
    /\ Codes \cup Statuses \subseteq 100..599
<1>1. 100..599 \subseteq Nat /\ NoBody \subseteq Nat
  BY DEF NoBody
<1> QED
  BY <1>1, HttpAssumption

\* The fields that all calls but the one that sets them leave alone.
Alike(w, v) ==
    /\ v.responseBody = w.responseBody /\ v.chunks = w.chunks
    /\ v.pageHeaders = w.pageHeaders /\ v.again = w.again

\* Node takes a chunk; the status of a response without headers must be known.
LEMMA TakenResponse ==
    ASSUME NEW w \in Response, NEW chunk \in Chunks \cup {Unset},
           w.status # Unset
    PROVE  LET v == Taken(w, chunk)
           IN  /\ v \in Response /\ Alike(w, v)
               /\ v.status = w.status /\ v.ended = w.ended /\ v.late = w.late
               /\ v.sentStatus = IF HeadersSent(w) THEN w.sentStatus ELSE w.status
               /\ v.sent = IF v.sentStatus \in NoBody THEN w.sent ELSE Push(w.sent, chunk)
               /\ v.sentStatus # Unset
<1> DEFINE status == IF HeadersSent(w) THEN w.sentStatus ELSE w.status
           sent == IF status \in NoBody THEN w.sent ELSE Push(w.sent, chunk)
           u == [w EXCEPT !.sentStatus = status]
           v == [u EXCEPT !.sent = sent]
<1>1. status \in 100..599 \cup {Unset} /\ status # Unset /\ sent \in Seq(Chunks)
  BY PushedElements DEF HeadersSent, Response
<1>2. Taken(w, chunk) = [w EXCEPT !.sentStatus = status, !.sent = sent]
  BY DEF Taken
<1> HIDE DEF status, sent
<1>3. u \in Response /\ Alike(w, u) /\ u.status = w.status /\ u.ended = w.ended
      /\ u.late = w.late /\ u.sentStatus = status /\ u.sent = w.sent
  <2>1. u \in Response
    BY <1>1, ZenonT(60) DEF Response
  <2>2. Alike(w, u)
    BY DEF Response, Alike
  <2>3. u.status = w.status /\ u.ended = w.ended
        /\ u.late = w.late /\ u.sentStatus = status /\ u.sent = w.sent
    BY DEF Response
  <2> QED
    BY <2>1, <2>2, <2>3
<1>4. Taken(w, chunk) = v
  BY <1>2
<1> HIDE DEF u
<1>5. v \in Response
  BY <1>1, <1>3, ZenonT(60) DEF Response
<1>6. Alike(u, v)
  BY <1>3 DEF Response, Alike
<1>7. v.status = u.status /\ v.ended = u.ended
      /\ v.late = u.late /\ v.sentStatus = u.sentStatus /\ v.sent = sent
  BY <1>3 DEF Response
<1> HIDE DEF v
<1>8. Alike(w, v)
  BY <1>3, <1>6 DEF Alike
<1> QED
  BY <1>1, <1>3, <1>4, <1>5, <1>7, <1>8 DEF status, sent

\* The recording of a chunk that is also sent still keeps up, and what is sent
\* without the headers of a page is not its items.
LEMMA TakenIsSound ==
    ASSUME NEW w \in Response, Sound(w), ~w.ended, Delivers(w, w.chunks),
           NEW chunk \in Chunks \cup {Unset}, w.status # Unset,
           chunk = Items => w.pageHeaders,
           w.pageHeaders => chunk \in {Items, Error, Unset},
           NEW v, v.sentStatus = (IF HeadersSent(w) THEN w.sentStatus ELSE w.status),
           v.sent = (IF v.sentStatus \in NoBody THEN w.sent ELSE Push(w.sent, chunk)),
           v.pageHeaders = w.pageHeaders,
           v.ended => v.responseBody = Push(w.chunks, chunk)
    PROVE  Sound(v) /\ HeadersSent(v) /\ Delivers(v, Push(w.chunks, chunk))
<1>1. v.sentStatus # Unset
  BY DEF HeadersSent
<1>2. v.sentStatus \in NoBody => v.sent = <<>>
  BY DEF Sound
<1>3. w.sentStatus \in NoBody => v.sentStatus \in NoBody
  BY StatusesAreSet DEF HeadersSent
<1>4. v.sentStatus \notin NoBody => v.sent = Push(w.chunks, chunk)
  BY <1>3 DEF Delivers
<1>5. Delivers(v, Push(w.chunks, chunk))
  BY <1>2, <1>4 DEF Delivers
<1>6. Elements(v.sent) \subseteq Elements(w.sent) \cup ({chunk} \ {Unset})
  BY PushedElements DEF Response
<1>7. Items \in Elements(v.sent) => v.pageHeaders
  BY <1>6 DEF Sound
<1>8. v.pageHeaders => Elements(v.sent) \subseteq {Items, Error}
  BY <1>6 DEF Sound
<1> QED
  BY <1>1, <1>2, <1>5, <1>7, <1>8 DEF Sound, HeadersSent

\* The outcome o of ending a response w: it is ended or the call threw, and that
\* left either a text among the chunks or found no status.
EndOutcome(w, chunk, o) ==
    /\ o.res \in Response /\ o.threw \in BOOLEAN /\ Sound(o.res)
    /\ o.res.status = w.status /\ o.res.pageHeaders = w.pageHeaders /\ o.res.late = w.late
    /\ o.threw => Spoilt(o.res) \/ w.status = Unset
    /\ ~o.threw => o.res.ended
    /\ w.ended => o.res.ended /\ o.res.sent = w.sent
    /\ w.again => o.res.again
    /\ HeadersSent(w) => o.res.sentStatus = w.sentStatus
    /\ ~HeadersSent(w) /\ o.threw => ~HeadersSent(o.res)
    /\ ~HeadersSent(w) /\ ~o.threw =>
           /\ o.res.sentStatus = w.status
           /\ o.res.sent = IF w.status \in NoBody THEN <<>> ELSE Push(<<>>, chunk)

LEMMA EndResponse ==
    ASSUME NEW w \in Response, Sound(w), NEW chunk \in Chunks \cup {Unset},
           w.ended \/ Delivers(w, w.chunks) \/ Spoilt(w),
           chunk = Items => w.pageHeaders,
           w.pageHeaders => chunk \in {Items, Error, Unset}
    PROVE  EndOutcome(w, chunk, WrappedEnd(w, chunk))
<1> DEFINE recorded == [w EXCEPT !.chunks = Push(@, chunk)]
           body == [recorded EXCEPT !.responseBody = recorded.chunks]
<1>1. /\ w.sent \in Seq(Chunks) /\ w.chunks \in Seq(Chunks) /\ w.ended \in BOOLEAN
      /\ Push(w.chunks, chunk) \in Seq(Chunks) /\ Push(w.sent, chunk) \in Seq(Chunks)
  BY PushedElements DEF Response
<1>2. /\ recorded \in Response
      /\ recorded.chunks = Push(w.chunks, chunk)
      /\ recorded.responseBody = w.responseBody
      /\ recorded.status = w.status /\ recorded.sentStatus = w.sentStatus
      /\ recorded.ended = w.ended /\ recorded.pageHeaders = w.pageHeaders
      /\ recorded.sent = w.sent /\ recorded.again = w.again /\ recorded.late = w.late
  <2>1. recorded \in Response
    BY <1>1, ZenonT(60) DEF Response
  <2>2. /\ recorded.chunks = Push(w.chunks, chunk)
        /\ recorded.responseBody = w.responseBody
        /\ recorded.status = w.status /\ recorded.sentStatus = w.sentStatus
        /\ recorded.ended = w.ended
    BY <1>1 DEF Response
  <2>3. /\ recorded.pageHeaders = w.pageHeaders
        /\ recorded.sent = w.sent /\ recorded.again = w.again /\ recorded.late = w.late
    BY <1>1 DEF Response
  <2> QED
    BY <2>1, <2>2, <2>3
<1>3. /\ body \in Response /\ body.chunks = Push(w.chunks, chunk)
      /\ body.responseBody = Push(w.chunks, chunk)
      /\ body.status = w.status /\ body.sentStatus = w.sentStatus
      /\ body.ended = w.ended /\ body.pageHeaders = w.pageHeaders
      /\ body.sent = w.sent /\ body.again = w.again /\ body.late = w.late
  <2> HIDE DEF recorded
  <2>1. recorded.chunks \in Seq(Chunks)
    BY <1>1, <1>2
  <2>2. body \in Response
    BY <1>2, <2>1, ZenonT(60) DEF Response
  <2>3. /\ body.responseBody = recorded.chunks /\ body.chunks = recorded.chunks
        /\ body.status = recorded.status /\ body.sentStatus = recorded.sentStatus
    BY <1>2 DEF Response
  <2>4. /\ body.ended = recorded.ended /\ body.pageHeaders = recorded.pageHeaders
        /\ body.sent = recorded.sent /\ body.again = recorded.again
        /\ body.late = recorded.late
    BY <1>2 DEF Response
  <2> QED
    BY <1>2, <2>2, <2>3, <2>4
<1>4. Elements(Push(w.chunks, chunk)) = Elements(w.chunks) \cup ({chunk} \ {Unset})
  BY <1>1, PushedElements
<1>5. WrappedEnd(w, chunk) = IF Elements(recorded.chunks) \cap Texts # {}
                             THEN Threw(recorded) ELSE OriginalEnd(body, chunk)
  BY DEF WrappedEnd
<1> HIDE DEF recorded, body
<1>6. CASE Elements(recorded.chunks) \cap Texts # {}
  <2>1. Sound(recorded)
    BY <1>2 DEF Sound, HeadersSent, Delivers
  <2>2. EndOutcome(w, chunk, Threw(recorded))
    BY <1>2, <1>6, <2>1 DEF EndOutcome, Threw, Spoilt, HeadersSent
  <2> QED
    BY <1>5, <1>6, <2>2
<1>7. CASE Elements(recorded.chunks) \cap Texts = {}
  <2>1. WrappedEnd(w, chunk) = OriginalEnd(body, chunk)
    BY <1>5, <1>7
  <2>2. w.ended \/ Delivers(w, w.chunks)
    BY <1>2, <1>4, <1>7 DEF Spoilt
  <2>3. CASE w.ended
    <3> DEFINE v == [body EXCEPT !.again = TRUE]
    <3>1. v \in Response
      BY <1>3, ZenonT(60) DEF Response
    <3>2. /\ v.again /\ v.status = w.status /\ v.sentStatus = w.sentStatus /\ v.ended = w.ended
          /\ v.pageHeaders = w.pageHeaders /\ v.sent = w.sent /\ v.late = w.late
      BY <1>3 DEF Response
    <3>3. WrappedEnd(w, chunk) = Done(v)
      BY <1>3, <2>1, <2>3 DEF OriginalEnd
    <3> HIDE DEF v
    <3>4. Sound(v) /\ HeadersSent(w)
      BY <2>3, <3>1, <3>2 DEF Sound, HeadersSent
    <3>5. EndOutcome(w, chunk, Done(v))
      BY <2>3, <3>1, <3>2, <3>4 DEF EndOutcome, Done, HeadersSent
    <3> QED
      BY <3>3, <3>5
  <2>4. CASE ~w.ended /\ w.status = Unset
    <3>1. WrappedEnd(w, chunk) = Threw(body)
      BY <1>3, <2>1, <2>4 DEF OriginalEnd
    <3>2. Sound(body)
      BY <1>3, <2>4 DEF Sound, HeadersSent
    <3>3. EndOutcome(w, chunk, Threw(body))
      BY <1>3, <2>4, <3>2 DEF EndOutcome, Threw, HeadersSent
    <3> QED
      BY <3>1, <3>3
  <2>5. CASE ~w.ended /\ w.status # Unset
    <3> DEFINE t == Taken(body, chunk)
               v == [t EXCEPT !.ended = TRUE]
    <3>1. WrappedEnd(w, chunk) = Done(v)
      BY <1>3, <2>1, <2>5 DEF OriginalEnd
    <3>2. /\ t \in Response /\ Alike(body, t) /\ t.status = w.status /\ t.late = w.late
          /\ t.sentStatus = IF HeadersSent(w) THEN w.sentStatus ELSE w.status
          /\ t.sent = IF t.sentStatus \in NoBody THEN w.sent ELSE Push(w.sent, chunk)
      BY <1>3, <2>5, TakenResponse DEF HeadersSent
    <3> HIDE DEF t
    <3>3. v \in Response
      BY <3>2, ZenonT(60) DEF Response
    <3>4. v.ended /\ v.sent = t.sent /\ v.sentStatus = t.sentStatus /\ v.status = t.status
      BY <3>2 DEF Response
    <3>5. v.late = t.late /\ v.responseBody = t.responseBody /\ v.pageHeaders = t.pageHeaders
          /\ v.again = t.again
      BY <3>2 DEF Response
    <3> HIDE DEF v
    <3>6. /\ v.responseBody = Push(w.chunks, chunk) /\ v.pageHeaders = w.pageHeaders
          /\ v.again = w.again
      BY <1>3, <3>2, <3>5 DEF Alike
    <3>7. Sound(v) /\ HeadersSent(v)
      BY <2>2, <2>5, <3>2, <3>4, <3>6, TakenIsSound
    <3>8. ~HeadersSent(w) => w.sent = <<>>
      BY DEF Sound
    <3>9. EndOutcome(w, chunk, Done(v))
      BY <2>5, <3>2, <3>3, <3>4, <3>5, <3>6, <3>7, <3>8 DEF EndOutcome, Done, HeadersSent
    <3> QED
      BY <3>1, <3>9
  <2> QED
    BY <2>3, <2>4, <2>5, <1>1
<1> QED
  BY <1>6, <1>7

\* What was sent of an ended response is never changed.
Keeps(w, v) ==
    /\ w.ended => v.ended /\ v.sent = w.sent /\ v.sentStatus = w.sentStatus
    /\ w.again => v.again
    /\ w.late => v.late

LEMMA EndKeeps ==
    ASSUME NEW w \in Response, Sound(w), NEW chunk, NEW o, EndOutcome(w, chunk, o)
    PROVE  Keeps(w, o.res)
BY DEF EndOutcome, Keeps, Sound, HeadersSent

LEMMA PageHeadersSet ==
    ASSUME NEW w \in Response, NEW headers \in BOOLEAN
    PROVE  LET v == [w EXCEPT !.pageHeaders = headers]
           IN  /\ v \in Response /\ v.status = w.status /\ Keeps(w, v)
               /\ v.chunks = w.chunks /\ v.sent = w.sent /\ v.ended = w.ended
               /\ v.sentStatus = w.sentStatus /\ v.pageHeaders = headers
               /\ v.again = w.again /\ v.responseBody = w.responseBody /\ v.late = w.late
<1> DEFINE v == [w EXCEPT !.pageHeaders = headers]
<1>1. v \in Response
  BY ZenonT(60) DEF Response
<1>2. /\ v.status = w.status /\ v.chunks = w.chunks /\ v.sent = w.sent /\ v.ended = w.ended
      /\ v.sentStatus = w.sentStatus
  BY DEF Response
<1>3. /\ v.pageHeaders = headers /\ v.again = w.again /\ v.responseBody = w.responseBody
      /\ v.late = w.late
  BY DEF Response
<1> QED
  BY <1>1, <1>2, <1>3 DEF Keeps

\* Node takes note of an error to come.
LEMMA FailingSet ==
    ASSUME NEW w \in Response
    PROVE  LET v == [w EXCEPT !.failing = TRUE]
           IN  /\ v \in Response /\ v.status = w.status /\ v.late = w.late
               /\ v.sent = w.sent /\ v.ended = w.ended /\ v.sentStatus = w.sentStatus
               /\ Alike(w, v)
<1> DEFINE v == [w EXCEPT !.failing = TRUE]
<1>1. v \in Response
  BY ZenonT(60) DEF Response
<1>2. /\ v.status = w.status /\ v.late = w.late /\ v.sent = w.sent /\ v.ended = w.ended
      /\ v.sentStatus = w.sentStatus
  BY DEF Response
<1>3. Alike(w, v)
  BY DEF Response, Alike
<1> QED
  BY <1>1, <1>2, <1>3

-----------------------------------------------------------------------------
(* What the calls of a handler make of its response.                        *)

\* A response a handler may be working on.
Worked(w) ==
    /\ w \in Response /\ Sound(w) /\ ~w.pageHeaders
    /\ w.ended \/ Delivers(w, w.chunks)
    /\ w.status \in 100..599 /\ Agrees(w)

\* The outcome of a call that preserves the invariant: of a call that threw, and
\* of one after which the handler goes on.
Fits(w, o, next) ==
    /\ o.res \in Response /\ o.threw \in BOOLEAN /\ Sound(o.res) /\ Keeps(w, o.res)
    /\ o.res.status \in 100..599 /\ Agrees(o.res)
    /\ o.threw => o.res.ended \/ Delivers(o.res, o.res.chunks) \/ Spoilt(o.res)
    /\ next = "handling" /\ ~o.threw => Worked(o.res)

LEMMA UnchangedFits ==
    ASSUME NEW w, Worked(w), NEW next
    PROVE  Fits(w, Done(w), next) /\ Fits(w, Threw(w), next)
BY DEF Worked, Fits, Done, Threw, Keeps

LEMMA FitsAfter ==
    ASSUME NEW w, NEW v, Keeps(w, v), NEW o, NEW next, Fits(v, o, next)
    PROVE  Fits(w, o, next)
BY DEF Fits, Keeps

LEMMA EndFits ==
    ASSUME NEW w, Worked(w), NEW next, NEW chunk \in (Chunks \ {Items}) \cup {Unset}
    PROVE  Fits(w, WrappedEnd(w, chunk), next)
<1>1. w \in Response /\ Sound(w) /\ ~w.pageHeaders /\ (w.ended \/ Delivers(w, w.chunks))
      /\ w.status \in 100..599 /\ w.status # Unset
  BY StatusesAreSet DEF Worked
<1> DEFINE o == WrappedEnd(w, chunk)
<1>2. EndOutcome(w, chunk, o)
  <2>1. chunk \in Chunks \cup {Unset} /\ chunk # Items
    BY HttpAssumption DEF Chunks
  <2> QED
    BY <1>1, <2>1, EndResponse
<1>3. Keeps(w, o.res)
  BY <1>1, <1>2, EndKeeps
<1> HIDE DEF o
<1>4. /\ o.res \in Response /\ o.threw \in BOOLEAN /\ Sound(o.res)
      /\ o.res.status \in 100..599 /\ ~o.res.pageHeaders
      /\ o.threw => Spoilt(o.res)
      /\ ~o.threw => o.res.ended
  BY <1>1, <1>2 DEF EndOutcome
<1>5. Agrees(o.res)
  BY <1>1, <1>2 DEF EndOutcome, Worked, Agrees, HeadersSent
<1>6. ~o.threw => Worked(o.res)
  BY <1>4, <1>5 DEF Worked
<1>7. Fits(w, o, next)
  BY <1>3, <1>4, <1>5, <1>6 DEF Fits
<1> QED
  BY <1>7 DEF o

LEMMA WriteFits ==
    ASSUME NEW w, Worked(w), NEW chunk \in Buffers \cup Texts
    PROVE  Fits(w, Done(WrappedWrite(w, chunk)), "handling")
<1> DEFINE recorded == [w EXCEPT !.chunks = Append(@, chunk)]
           v == Taken(recorded, chunk)
<1>1. /\ w \in Response /\ Sound(w) /\ ~w.pageHeaders /\ w.status \in 100..599
      /\ w.status # Unset /\ Agrees(w) /\ (w.ended \/ Delivers(w, w.chunks))
  BY StatusesAreSet DEF Worked
<1>2. /\ chunk \in Chunks /\ chunk \notin {Items, Error, Unset}
      /\ w.chunks \in Seq(Chunks) /\ Append(w.chunks, chunk) \in Seq(Chunks)
      /\ Push(w.chunks, chunk) = Append(w.chunks, chunk)
  <2>1. chunk \in Chunks /\ chunk \notin {Items, Error, Unset}
    BY HttpAssumption DEF Chunks
  <2> QED
    BY <1>1, <2>1 DEF Response, Push
<1>3. /\ recorded \in Response /\ recorded.chunks = Append(w.chunks, chunk)
      /\ recorded.status = w.status /\ recorded.sentStatus = w.sentStatus
      /\ recorded.ended = w.ended /\ recorded.pageHeaders = w.pageHeaders
      /\ recorded.sent = w.sent /\ recorded.again = w.again /\ recorded.late = w.late
      /\ recorded.responseBody = w.responseBody
  <2>1. recorded \in Response
    BY <1>1, <1>2, ZenonT(60) DEF Response
  <2>2. /\ recorded.chunks = Append(w.chunks, chunk)
        /\ recorded.status = w.status /\ recorded.sentStatus = w.sentStatus
        /\ recorded.ended = w.ended
    BY <1>1 DEF Response
  <2>3. /\ recorded.pageHeaders = w.pageHeaders /\ recorded.sent = w.sent
        /\ recorded.again = w.again /\ recorded.late = w.late
        /\ recorded.responseBody = w.responseBody
    BY <1>1 DEF Response
  <2> QED
    BY <2>1, <2>2, <2>3
<1>4. WrappedWrite(w, chunk) = IF w.ended THEN recorded ELSE v
  BY DEF WrappedWrite
<1> HIDE DEF recorded
<1>5. CASE w.ended
  <2>1. Sound(recorded) /\ Agrees(recorded) /\ Keeps(w, recorded)
    BY <1>1, <1>3 DEF Sound, Agrees, HeadersSent, Delivers, Keeps
  <2>2. Worked(recorded)
    BY <1>1, <1>3, <1>5, <2>1 DEF Worked
  <2>3. Fits(w, Done(recorded), "handling")
    BY <2>1, <2>2 DEF Fits, Done, Worked
  <2> QED
    BY <1>4, <1>5, <2>3
<1>6. CASE ~w.ended
  <2>1. /\ v \in Response /\ Alike(recorded, v)
        /\ v.status = w.status /\ v.ended = w.ended /\ v.late = w.late
        /\ v.sentStatus = IF HeadersSent(w) THEN w.sentStatus ELSE w.status
        /\ v.sent = IF v.sentStatus \in NoBody THEN w.sent ELSE Push(w.sent, chunk)
    BY <1>1, <1>2, <1>3, TakenResponse DEF HeadersSent
  <2> HIDE DEF v
  <2>2. v.chunks = Push(w.chunks, chunk) /\ v.pageHeaders = w.pageHeaders /\ v.again = w.again
    BY <1>2, <1>3, <2>1 DEF Alike
  <2>3. Sound(v) /\ HeadersSent(v) /\ Delivers(v, Push(w.chunks, chunk))
    BY <1>1, <1>2, <1>6, <2>1, <2>2, TakenIsSound
  <2>4. Agrees(v) /\ Keeps(w, v)
    BY <1>1, <1>6, <2>1, <2>2 DEF Agrees, Keeps, HeadersSent
  <2>5. Worked(v)
    BY <1>1, <2>1, <2>2, <2>3, <2>4 DEF Worked
  <2>6. Fits(w, Done(v), "handling")
    BY <2>4, <2>5 DEF Fits, Done, Worked
  <2> QED
    BY <1>4, <1>6, <2>6
<1> QED
  BY <1>5, <1>6

LEMMA LateChunkFits ==
    ASSUME NEW w, NEW o, NEW r, NEW chunk, Fits(w, o, "handling")
    PROVE  Fits(w, LateChunk(r, chunk, o), "handling")
<1> DEFINE v == [o.res EXCEPT !.failing = TRUE]
<1>1. CASE LateChunk(r, chunk, o) = o
  BY <1>1
<1>2. CASE LateChunk(r, chunk, o) = Done(v) /\ ~o.threw
  <2>1. Worked(o.res) /\ Keeps(w, o.res) /\ o.res \in Response
    BY <1>2 DEF Fits
  <2>2. /\ v \in Response /\ v.status = o.res.status /\ v.late = o.res.late
        /\ v.sent = o.res.sent /\ v.ended = o.res.ended /\ v.sentStatus = o.res.sentStatus
        /\ Alike(o.res, v)
    BY <2>1, FailingSet
  <2> HIDE DEF v
  <2>3. Sound(v) /\ Agrees(v) /\ Keeps(w, v)
    BY <2>1, <2>2 DEF Sound, Agrees, Keeps, HeadersSent, Delivers, Alike, Worked
  <2>4. Worked(v)
    BY <2>1, <2>2, <2>3 DEF Worked, Delivers, Alike
  <2>5. Fits(w, Done(v), "handling")
    BY <2>3, <2>4 DEF Fits, Done, Worked
  <2> QED
    BY <1>2, <2>5
<1>3. LateChunk(r, chunk, o) = o \/ (LateChunk(r, chunk, o) = Done(v) /\ ~o.threw)
  BY DEF LateChunk
<1> QED
  BY <1>1, <1>2, <1>3

LEMMA SetStatusFits ==
    ASSUME NEW w, Worked(w), NEW code \in Codes
    PROVE  Fits(w, Done([w EXCEPT !.status = code, !.late = @ \/ HeadersSent(w)]), "handling")
<1>1. code \in 100..599 \cup {Unset} /\ code \in 100..599 /\ w \in Response /\ w.late \in BOOLEAN
  BY StatusesAreSet DEF Worked, Response
<1>2. SUFFICES ASSUME NEW late \in BOOLEAN, late = (w.late \/ HeadersSent(w)),
                      NEW v, v = [w EXCEPT !.status = code, !.late = late]
               PROVE  Fits(w, Done(v), "handling")
  OBVIOUS
<1>3. (w.late => late) /\ (HeadersSent(w) => late)
  BY <1>2
<1>4. /\ v \in Response /\ v.status = code /\ v.late = late /\ Keeps(w, v)
      /\ v.sent = w.sent /\ v.ended = w.ended /\ v.sentStatus = w.sentStatus
      /\ Alike(w, v)
  <2> DEFINE u == [w EXCEPT !.status = code]
             x == [u EXCEPT !.late = late]
  <2>1. u \in Response
    BY <1>1, ZenonT(60) DEF Response
  <2>2. /\ u.status = code /\ u.sent = w.sent /\ u.ended = w.ended
        /\ u.sentStatus = w.sentStatus
    BY <1>1 DEF Response
  <2>3. Alike(w, u)
    BY <1>1 DEF Response, Alike
  <2>4. x = v
    BY <1>2
  <2> HIDE DEF u
  <2>5. x \in Response
    BY <2>1, ZenonT(60) DEF Response
  <2>6. /\ x.status = u.status /\ x.late = late /\ x.sent = u.sent /\ x.ended = u.ended
        /\ x.sentStatus = u.sentStatus
    BY <2>1 DEF Response
  <2>7. Alike(u, x)
    BY <2>1 DEF Response, Alike
  <2> HIDE DEF x
  <2>8. x.sent = w.sent /\ x.ended = w.ended /\ x.sentStatus = w.sentStatus /\ Alike(w, x)
    BY <2>2, <2>3, <2>6, <2>7 DEF Alike
  <2>9. w.late => x.late
    BY <1>3, <2>6, Zenon
  <2>10. Keeps(w, x)
    BY <2>8, <2>9 DEF Keeps, Alike
  <2> QED
    BY <2>2, <2>4, <2>5, <2>6, <2>8, <2>10, Zenon
<1>5. Sound(v)
  BY <1>4 DEF Worked, Sound, HeadersSent, Delivers, Alike
<1>6. Agrees(v)
  BY <1>3, <1>4 DEF Agrees, HeadersSent
<1>7. Worked(v)
  BY <1>1, <1>4, <1>5, <1>6 DEF Worked, Delivers, Alike
<1> QED
  BY <1>4, <1>5, <1>6, <1>7 DEF Fits, Done, Worked

LEMMA ReplyFits ==
    ASSUME NEW w, Worked(w)
    PROVE  Fits(w, Json(w, Value), "over") /\ Fits(w, SendNothing(w), "over")
<1>1. Value \in Chunks \ {Items}
  BY HttpAssumption DEF Chunks
<1> QED
  BY <1>1, EndFits, UnchangedFits DEF Json, SendNothing

LEMMA PageFits ==
    ASSUME NEW w, Worked(w), NEW headers \in BOOLEAN, NEW stringifiable \in BOOLEAN
    PROVE  Fits(w, SetPaginationResponseHeader(w, headers, stringifiable), "over")
<1> DEFINE v == [w EXCEPT !.pageHeaders = headers]
           chunk == IF v.status \in Empty THEN Unset ELSE Items
           o == WrappedEnd(v, chunk)
<1>1. w \in Response /\ Sound(w) /\ w.status \in 100..599 /\ w.status # Unset
  BY StatusesAreSet DEF Worked
<1>2. /\ v \in Response /\ v.status = w.status /\ Keeps(w, v)
      /\ v.chunks = w.chunks /\ v.sent = w.sent /\ v.ended = w.ended
      /\ v.sentStatus = w.sentStatus /\ v.pageHeaders = headers
      /\ v.again = w.again /\ v.responseBody = w.responseBody /\ v.late = w.late
  BY <1>1, PageHeadersSet
<1>3. CASE headers /\ HeadersSent(w)
  BY <1>3, UnchangedFits DEF SetPaginationResponseHeader
<1>4. CASE ~headers
  <2>1. SetPaginationResponseHeader(w, headers, stringifiable) =
            IF stringifiable THEN Json(v, Value) ELSE Threw(v)
    BY <1>4 DEF SetPaginationResponseHeader
  <2> HIDE DEF v
  <2>2. Worked(v)
    BY <1>2, <1>4 DEF Worked, Sound, Agrees, HeadersSent, Delivers
  <2>3. Fits(v, Json(v, Value), "over") /\ Fits(v, Threw(v), "over")
    BY <2>2, ReplyFits, UnchangedFits
  <2> QED
    BY <1>2, <2>1, <2>3, FitsAfter
<1>5. CASE headers /\ ~HeadersSent(w)
  <2>1. w.sent = <<>> /\ ~w.ended /\ Delivers(w, w.chunks)
    BY <1>5 DEF Worked, Sound
  <2>2. SetPaginationResponseHeader(w, headers, stringifiable) =
            IF stringifiable THEN Json(v, Items) ELSE Threw(v)
    BY <1>5 DEF SetPaginationResponseHeader
  <2> HIDE DEF v
  <2>3. ~HeadersSent(v) /\ Sound(v) /\ Agrees(v) /\ Delivers(v, v.chunks)
    <3>1. ~HeadersSent(v) /\ Agrees(v)
      BY <1>2, <1>5 DEF HeadersSent, Agrees
    <3>2. Elements(v.sent) = {}
      BY <1>2, <2>1 DEF Elements
    <3>3. Sound(v)
      BY <1>2, <2>1, <3>1, <3>2 DEF Sound
    <3>4. Delivers(v, v.chunks)
      BY <1>2, <2>1 DEF Delivers
    <3> QED
      BY <3>1, <3>3, <3>4
  <2>4. CASE ~stringifiable
    <3>1. Fits(w, Threw(v), "over")
      BY <1>1, <1>2, <2>3 DEF Fits, Threw
    <3> QED
      BY <2>2, <2>4, <3>1
  <2>5. CASE stringifiable
    <3>1. SetPaginationResponseHeader(w, headers, stringifiable) = o
      BY <2>2, <2>3, <2>5 DEF Json
    <3>2. chunk \in {Items, Unset} /\ chunk \in Chunks \cup {Unset}
      BY DEF Chunks
    <3> HIDE DEF chunk
    <3>3. EndOutcome(v, chunk, o)
      BY <1>2, <1>5, <2>3, <3>2, EndResponse
    <3>4. Keeps(v, o.res)
      BY <1>2, <2>3, <3>3, EndKeeps
    <3> HIDE DEF o
    <3>5. /\ o.res \in Response /\ o.threw \in BOOLEAN /\ Sound(o.res)
          /\ o.res.status \in 100..599
          /\ o.threw => Spoilt(o.res)
      BY <1>1, <1>2, <3>3 DEF EndOutcome
    <3>6. Agrees(o.res)
      BY <1>1, <1>2, <2>3, <3>3 DEF EndOutcome, Agrees, HeadersSent
    <3>7. Keeps(w, o.res)
      BY <1>2, <3>4 DEF Keeps
    <3>8. Fits(w, o, "over")
      BY <3>5, <3>6, <3>7 DEF Fits
    <3> QED
      BY <3>1, <3>8
  <2> QED
    BY <2>4, <2>5
<1> QED
  BY <1>3, <1>4, <1>5

-----------------------------------------------------------------------------
(* What the filters make of a response.                                     *)

\* The status of an exception, and the statuses it may be answered with.
OwnStatus(e) == IF e \in HttpExceptions THEN e.status ELSE 500

Fitting(e, status) ==
    \/ status = OwnStatus(e)
    \/ filter = "AllExceptionsFilter" /\ e.kind = "coded" /\ status = e.code

\* A response a filter may have to answer with.
Left(w) ==
    /\ w \in Response /\ Sound(w)
    /\ w.ended \/ Delivers(w, w.chunks) \/ Spoilt(w)

Answers(w, e, o) ==
    /\ o.res \in Response /\ o.threw \in BOOLEAN /\ Sound(o.res) /\ Keeps(w, o.res)
    /\ ~o.threw => /\ o.res.ended /\ Fitting(e, o.res.sentStatus)
                   /\ o.res.sentStatus = o.res.status
                   /\ o.res.sent = IF o.res.sentStatus \in NoBody \cup Empty
                                   THEN <<>> ELSE <<Error>>
    /\ o.threw => e.kind \in Unanswerable \/ HeadersSent(o.res) \/ Spoilt(o.res)

LEMMA ErrorAnswered ==
    ASSUME NEW w, Left(w), NEW e, NEW status \in 100..599 \cup {Unset},
           status = Unset => e.kind \in Unanswerable,
           status # Unset => Fitting(e, status)
    PROVE  Answers(w, e, Json([w EXCEPT !.status = status], Error))
<1> DEFINE v == [w EXCEPT !.status = status]
           chunk == IF v.status \in Empty THEN Unset ELSE Error
           o == WrappedEnd(v, chunk)
<1>1. w \in Response /\ Sound(w) /\ (w.ended \/ Delivers(w, w.chunks) \/ Spoilt(w))
  BY DEF Left
<1>2. /\ v \in Response /\ v.status = status /\ Keeps(w, v)
      /\ v.sent = w.sent /\ v.ended = w.ended /\ v.sentStatus = w.sentStatus
      /\ Alike(w, v)
  <2>1. v \in Response
    BY <1>1, ZenonT(60) DEF Response
  <2>2. /\ v.status = status /\ v.sent = w.sent /\ v.ended = w.ended
        /\ v.sentStatus = w.sentStatus /\ v.late = w.late
    BY <1>1 DEF Response
  <2>3. Alike(w, v)
    BY <1>1 DEF Response, Alike
  <2> QED
    BY <2>1, <2>2, <2>3 DEF Keeps, Alike
<1>3. Json(v, Error) = IF HeadersSent(v) THEN Threw(v) ELSE o
  BY DEF Json
<1> HIDE DEF v
<1>4. Sound(v)
  BY <1>1, <1>2 DEF Sound, HeadersSent, Delivers, Alike
<1>5. CASE HeadersSent(v)
  <2>1. Answers(w, e, Threw(v))
    BY <1>2, <1>4, <1>5 DEF Answers, Threw
  <2> QED
    BY <1>3, <1>5, <2>1 DEF v
<1>6. CASE ~HeadersSent(v)
  <2>1. /\ chunk \in Chunks \cup {Unset} /\ chunk # Items /\ chunk \in {Error, Unset}
        /\ Push(<<>>, chunk) = IF status \in Empty THEN <<>> ELSE <<Error>>
    BY <1>2, HttpAssumption DEF Chunks, Push
  <2> HIDE DEF chunk
  <2>2. v.ended \/ Delivers(v, v.chunks) \/ Spoilt(v)
    BY <1>1, <1>2 DEF Spoilt, Delivers, Alike
  <2>3. EndOutcome(v, chunk, o)
    BY <1>2, <1>4, <2>1, <2>2, EndResponse
  <2>4. Keeps(v, o.res)
    BY <1>2, <1>4, <2>3, EndKeeps
  <2> HIDE DEF o
  <2>5. Keeps(w, o.res)
    BY <1>2, <2>4 DEF Keeps
  <2>6. /\ o.res \in Response /\ o.threw \in BOOLEAN /\ Sound(o.res)
        /\ o.res.status = status
        /\ ~o.threw => /\ o.res.ended /\ o.res.sentStatus = status
                       /\ o.res.sent = IF status \in NoBody \cup Empty THEN <<>> ELSE <<Error>>
        /\ o.threw => Spoilt(o.res) \/ status = Unset
    BY <1>2, <1>6, <2>1, <2>3 DEF EndOutcome
  <2>7. ~o.threw => status # Unset
    BY <2>6 DEF Sound, HeadersSent
  <2>8. Answers(w, e, o)
    BY <2>5, <2>6, <2>7 DEF Answers
  <2> QED
    BY <1>3, <1>6, <2>8 DEF v
<1> QED
  BY <1>5, <1>6

\* Exceptions and the shapes made of them.
LEMMA Shapes ==
    ASSUME NEW e \in Exceptions, filter \in Filters
    PROVE  /\ e.kind \in {"null", "unsendable"} => e.kind \in Unanswerable
           /\ filter = "AllExceptionsFilter" /\ e.kind = "string" => e.kind \in Unanswerable
           /\ OwnStatus(e) \in 100..599 /\ OwnStatus(e) # Unset
           /\ LET status == CreateGeneralExceptionError(e)
              IN  /\ status \in 100..599 \cup {Unset}
                  /\ filter = "AllExceptionsFilter" =>
                         /\ status = Unset => e.kind \in Unanswerable
                         /\ status # Unset => Fitting(e, status)
<1>1. CASE e \in HttpExceptions
  <2>1. /\ e.kind \in {"text", "uncoded", "coded"} /\ e.status \in Statuses
        /\ e.kind = "coded" => e.code \in Statuses \cup Codes
        /\ e.kind # "coded" => e.code = Unset
    BY <1>1 DEF HttpExceptions
  <2>2. e.status \in 100..599 /\ (e.kind = "coded" => e.code \in 100..599)
    BY <2>1, StatusesAreSet
  <2>3. OwnStatus(e) = e.status
    BY <1>1 DEF OwnStatus
  <2>4. CreateGeneralExceptionError(e) = IF e.kind = "text" THEN e.status ELSE e.code
    BY <2>1 DEF CreateGeneralExceptionError
  <2> QED
    BY <2>1, <2>2, <2>3, <2>4, StatusesAreSet DEF Unanswerable, Fitting
<1>2. CASE e \in OtherExceptions
  <2>1. e.kind \in {"Error", "object", "string", "null", "unsendable"} /\ e.code = Unset
    BY <1>2 DEF OtherExceptions
  <2>2. OwnStatus(e) = 500
    BY <2>1 DEF OwnStatus, HttpExceptions
  <2>3. CreateGeneralExceptionError(e) = IF e.kind \in {"null", "Error"} THEN 500 ELSE Unset
    BY <2>1 DEF CreateGeneralExceptionError
  <2>4. 500 \in 100..599 /\ 500 # Unset
    BY StatusesAreSet
  <2> QED
    BY <2>1, <2>2, <2>3, <2>4 DEF Unanswerable, Fitting
<1> QED
  BY <1>1, <1>2 DEF Exceptions

LEMMA FilterAnswers ==
    ASSUME NEW w, Left(w), NEW e \in Exceptions, filter \in Filters
    PROVE  Answers(w, e, Filter(w, e))
<1>1. CASE filter = "AllExceptionsFilter"
  <2> DEFINE status == CreateGeneralExceptionError(e)
  <2>1. /\ status \in 100..599 \cup {Unset}
        /\ status = Unset => e.kind \in Unanswerable
        /\ status # Unset => Fitting(e, status)
    BY <1>1, Shapes
  <2> HIDE DEF status
  <2>2. Answers(w, e, Json([w EXCEPT !.status = status], Error))
    BY <2>1, ErrorAnswered
  <2>3. e.kind \in {"null", "string", "unsendable"} => Answers(w, e, Threw(w))
    BY <1>1, Shapes DEF Answers, Threw, Left, Keeps
  <2> QED
    BY <1>1, <2>2, <2>3 DEF Filter, AllExceptionsFilter, status
<1>2. CASE filter # "AllExceptionsFilter"
  <2>1. Answers(w, e, Json([w EXCEPT !.status = OwnStatus(e)], Error))
    BY Shapes, ErrorAnswered DEF Fitting
  <2>2. e.kind \in {"null", "unsendable"} => Answers(w, e, Threw(w))
    BY Shapes DEF Answers, Threw, Left, Keeps
  <2> QED
    BY <1>2, <2>1, <2>2 DEF Filter, HttpExceptionFilter, OwnStatus
<1> QED
  BY <1>1, <1>2

-----------------------------------------------------------------------------
(* Every step keeps the invariant.                                          *)

\* A step that leaves the log and its ids alone and changes responses only by what
\* Keeps allows disturbs no part of the invariant that is about the log.
LogInv == Entries /\ Ids /\ LogMatchesBody /\ LogPairs

LEMMA LogKept ==
    ASSUME TypeOK, LogInv, UNCHANGED <<log, id, correlated, closing>>,
           \A r \in Requests : stage'[r] = "new" <=> stage[r] = "new",
           \A r \in Requests : Keeps(res[r], res'[r])
    PROVE  LogInv'
<1>1. \A i \in 1..Len(log) : log[i] \in Entry
  BY DEF TypeOK
<1>2. \A i \in 1..Len(log) : log[i].request \in Requests
  BY <1>1 DEF Entry
<1>3. Entries'
  BY <1>2 DEF LogInv, Entries, Keeps
<1>4. Ids'
  BY DEF LogInv, Ids
<1>5. LogMatchesBody'
  <2> SUFFICES ASSUME NEW i \in 1..Len(log), log[i].kind = "HTTP Response"
               PROVE  LET w == res'[log[i].request]
                      IN  /\ w.again \/ Delivers(w, log[i].body)
                          /\ w.late \/ log[i].status = w.sentStatus
    BY DEF LogMatchesBody
  <2> DEFINE q == log[i].request
  <2>1. Keeps(res[q], res'[q]) /\ res[q].ended
    BY <1>2 DEF LogInv, Entries
  <2>2. /\ res[q].again \/ Delivers(res[q], log[i].body)
        /\ res[q].late \/ log[i].status = res[q].sentStatus
    BY DEF LogInv, LogMatchesBody
  <2> HIDE DEF q
  <2>3. res'[q].again \/ Delivers(res'[q], log[i].body)
    BY <2>1, <2>2 DEF Keeps, Delivers
  <2>4. res'[q].late \/ log[i].status = res'[q].sentStatus
    BY <2>1, <2>2 DEF Keeps
  <2> QED
    BY <2>3, <2>4 DEF q
<1>6. LogPairs'
  BY DEF LogInv, LogPairs
<1> QED
  BY <1>3, <1>4, <1>5, <1>6 DEF LogInv

LEMMA ContinueStep ==
    ASSUME HttpInv, NEW r \in Requests, NEW o, NEW next \in {"handling", "over"},
           Continue(r, o, next), calls' \in 0..MaxCalls,
           Worked(res[r]) => Fits(res[r], o, next)
    PROVE  HttpInv'
<1>1. /\ TypeOK /\ ResponseInv /\ StatusOfException /\ CrashHasCulprit /\ LogInv
      /\ alive /\ stage[r] = "handling"
  BY DEF HttpInv, LogInv, Continue
<1>2. Sound(res[r]) /\ Recorded(r) /\ Status(r) /\ res[r] \in Response
  BY <1>1 DEF ResponseInv, TypeOK
<1>3. Worked(res[r])
  BY <1>1, <1>2 DEF Worked, Recorded, Status
<1>4. Fits(res[r], o, next)
  BY <1>3
<1>5. /\ o.res \in Response /\ o.threw \in BOOLEAN /\ Sound(o.res) /\ Keeps(res[r], o.res)
      /\ o.res.status \in 100..599 /\ Agrees(o.res)
      /\ o.threw => o.res.ended \/ Delivers(o.res, o.res.chunks) \/ Spoilt(o.res)
      /\ next = "handling" /\ ~o.threw => Worked(o.res)
  BY <1>4 DEF Fits
<1> DEFINE then == IF o.threw THEN "thrown" ELSE next
<1>6. /\ res' = [res EXCEPT ![r] = o.res]
      /\ stage' = [stage EXCEPT ![r] = then]
      /\ then \in {"thrown", "handling", "over"}
      /\ UNCHANGED <<alive, filter, closing, correlated, id, log>>
  BY <1>5 DEF Continue
<1>7. /\ exception' \in [Requests -> Exceptions \cup {Unset}]
      /\ o.threw => exception'[r] \in Exceptions
      /\ \A q \in Requests : q # r => exception'[q] = exception[q]
  <2>1. AnError \in Exceptions
    BY DEF Exceptions, OtherExceptions, AnError
  <2>2. exception \in [Requests -> Exceptions \cup {Unset}]
    BY <1>1 DEF TypeOK
  <2>3. IF o.threw
        THEN exception' = [exception EXCEPT ![r] = AnError]
        ELSE exception' = exception
    BY <1>5 DEF Continue
  <2> QED
    BY <2>1, <2>2, <2>3
<1>3a. /\ res'[r] = o.res /\ stage'[r] = then
      /\ \A q \in Requests : q # r => res'[q] = res[q] /\ stage'[q] = stage[q]
  BY <1>1, <1>6 DEF TypeOK
<1>9. TypeOK'
  <2>1. /\ stage' \in [Requests -> {"new", "handling", "thrown", "caught", "over"}]
        /\ res' \in [Requests -> Response]
    BY <1>1, <1>5, <1>6 DEF TypeOK
  <2>2. \A q \in Requests : stage'[q] \in {"thrown", "caught"} => exception'[q] \in Exceptions
    BY <1>1, <1>6, <1>7, <1>3a DEF TypeOK
  <2>3. \A q \in Requests : stage'[q] # "new" => id'[q] \in Nat
    BY <1>1, <1>6, <1>3a DEF TypeOK
  <2> HIDE DEF then
  <2> QED
    BY <1>1, <1>6, <1>7, <2>1, <2>2, <2>3 DEF TypeOK
<1>10. ResponseInv'
  <2> SUFFICES ASSUME NEW q \in Requests
               PROVE  (Sound(res[q]) /\ Recorded(q) /\ Status(q))'
    BY DEF ResponseInv
  <2>1. CASE q = r
    <3>1. Sound(res'[r]) /\ Status(r)'
      BY <1>5, <1>3a DEF Status
    <3>2. Recorded(r)'
      BY <1>5, <1>3a DEF Recorded, Worked
    <3> QED
      BY <2>1, <3>1, <3>2
  <2>2. CASE q # r
    BY <1>1, <1>6, <1>3a, <2>2 DEF ResponseInv, Recorded, Status
  <2> QED
    BY <2>1, <2>2
<1>11. StatusOfException'
  BY <1>1, <1>6, <1>7, <1>3a DEF StatusOfException
<1>12. CrashHasCulprit'
  BY <1>1, <1>6 DEF CrashHasCulprit
<1>13. LogInv'
  <2>1. \A q \in Requests : Keeps(res[q], res'[q])
    BY <1>5, <1>3a DEF Keeps
  <2>2. \A q \in Requests : stage'[q] = "new" <=> stage[q] = "new"
    BY <1>1, <1>6, <1>3a
  <2> QED
    BY <1>1, <1>6, <2>1, <2>2, LogKept
<1> QED
  BY <1>9, <1>10, <1>11, <1>12, <1>13 DEF HttpInv, LogInv

LEMMA CallsStep ==
    ASSUME HttpInv, NEW r \in Requests,
           Write(r) \/ End(r) \/ SetStatus(r) \/ Reply(r) \/ ReplyPage(r) \/ Return(r)
    PROVE  HttpInv'
<1>1. calls \in 0..MaxCalls /\ MaxCalls \in Nat
  BY HttpAssumption DEF HttpInv, TypeOK
<1>2. \A chunk \in Buffers \cup Texts : chunk \in Chunks \ {Items}
  BY HttpAssumption DEF Chunks
<1>3. CASE Write(r)
  <2>1. PICK chunk \in Buffers \cup Texts :
            Continue(r, LateChunk(r, chunk, Done(WrappedWrite(res[r], chunk))), "handling")
    BY <1>3 DEF Write
  <2>2. calls' \in 0..MaxCalls
    BY <1>1, <1>3 DEF Write
  <2> QED
    BY <2>1, <2>2, WriteFits, LateChunkFits, ContinueStep
<1>4. CASE End(r)
  <2>1. PICK chunk \in Buffers \cup Texts \cup {Unset} :
            Continue(r, LateChunk(r, chunk, WrappedEnd(res[r], chunk)), "handling")
    BY <1>4 DEF End
  <2>2. calls' \in 0..MaxCalls
    BY <1>1, <1>4 DEF End
  <2> QED
    BY <1>2, <2>1, <2>2, EndFits, LateChunkFits, ContinueStep
<1>5. CASE SetStatus(r)
  <2>1. PICK code \in Codes :
            Continue(r, Done([res[r] EXCEPT !.status = code, !.late = @ \/ HeadersSent(res[r])]),
                     "handling")
    BY <1>5 DEF SetStatus
  <2>2. calls < MaxCalls /\ calls' = calls + 1
    BY <1>5, Zenon DEF SetStatus
  <2>3. calls' \in 0..MaxCalls
    BY <1>1, <2>2
  <2>4. Worked(res[r]) =>
            Fits(res[r], Done([res[r] EXCEPT !.status = code, !.late = @ \/ HeadersSent(res[r])]),
                 "handling")
    BY SetStatusFits
  <2> QED
    BY <2>1, <2>3, <2>4, ContinueStep, Zenon
<1>6. CASE Reply(r)
  <2>1. calls' \in 0..MaxCalls
    BY <1>1, <1>6 DEF Reply
  <2>2. \/ Continue(r, Json(res[r], Value), "over")
        \/ Continue(r, SendNothing(res[r]), "over")
        \/ Continue(r, Threw(res[r]), "over")
    BY <1>6 DEF Reply
  <2> QED
    BY <2>1, <2>2, ReplyFits, UnchangedFits, ContinueStep
<1>7. CASE ReplyPage(r)
  <2>1. calls' \in 0..MaxCalls
    BY <1>1, <1>7 DEF ReplyPage
  <2>2. PICK headers \in BOOLEAN, stringifiable \in BOOLEAN :
            Continue(r, SetPaginationResponseHeader(res[r], headers, stringifiable), "over")
    BY <1>7 DEF ReplyPage
  <2> QED
    BY <2>1, <2>2, PageFits, ContinueStep
<1>8. CASE Return(r)
  <2>1. calls' \in 0..MaxCalls /\ Continue(r, Done(res[r]), "over")
    BY <1>1, <1>8 DEF Return
  <2> QED
    BY <2>1, UnchangedFits, ContinueStep
<1> QED
  BY <1>3, <1>4, <1>5, <1>6, <1>7, <1>8

LEMMA ThrowStep ==
    ASSUME HttpInv, NEW r \in Requests, Throw(r)
    PROVE  HttpInv'
<1>1. /\ TypeOK /\ ResponseInv /\ StatusOfException /\ CrashHasCulprit /\ LogInv
      /\ alive /\ stage[r] = "handling"
  BY DEF HttpInv, LogInv, Throw
<1>2. /\ stage' = [stage EXCEPT ![r] = "thrown"]
      /\ UNCHANGED <<alive, filter, calls, res, closing, correlated, id, log>>
  BY DEF Throw
<1>3. PICK e \in Exceptions : exception' = [exception EXCEPT ![r] = e]
  BY DEF Throw
<1>4. /\ stage'[r] = "thrown" /\ exception'[r] = e
      /\ \A q \in Requests : q # r => stage'[q] = stage[q] /\ exception'[q] = exception[q]
  BY <1>1, <1>2, <1>3 DEF TypeOK
<1>5. TypeOK'
  <2>1. /\ stage' \in [Requests -> {"new", "handling", "thrown", "caught", "over"}]
        /\ exception' \in [Requests -> Exceptions \cup {Unset}]
    BY <1>1, <1>2, <1>3 DEF TypeOK
  <2>2. \A q \in Requests : stage'[q] \in {"thrown", "caught"} => exception'[q] \in Exceptions
    BY <1>1, <1>4 DEF TypeOK
  <2>3. \A q \in Requests : stage'[q] # "new" => id'[q] \in Nat
    BY <1>1, <1>2, <1>4 DEF TypeOK
  <2> QED
    BY <1>1, <1>2, <2>1, <2>2, <2>3 DEF TypeOK
<1>6. ResponseInv'
  BY <1>1, <1>2, <1>4 DEF ResponseInv, Recorded, Status
<1>7. StatusOfException'
  BY <1>1, <1>2, <1>4 DEF StatusOfException
<1>3a. CrashHasCulprit'
  BY <1>1, <1>2 DEF CrashHasCulprit
<1>9. LogInv'
  <2>1. \A q \in Requests : Keeps(res[q], res'[q])
    BY <1>2 DEF Keeps
  <2>2. \A q \in Requests : stage'[q] = "new" <=> stage[q] = "new"
    BY <1>1, <1>4
  <2> QED
    BY <1>1, <1>2, <2>1, <2>2, LogKept
<1> QED
  BY <1>5, <1>6, <1>7, <1>3a, <1>9 DEF HttpInv, LogInv

LEMMA CatchStep ==
    ASSUME HttpInv, NEW r \in Requests, Catch(r)
    PROVE  HttpInv'
<1> DEFINE o == Filter(res[r], exception[r])
           then == IF o.threw THEN "thrown" ELSE "caught"
<1>1. /\ TypeOK /\ ResponseInv /\ StatusOfException /\ CrashHasCulprit /\ LogInv
      /\ alive /\ stage[r] = "thrown"
  BY DEF HttpInv, LogInv, Catch
<1>2. exception[r] \in Exceptions /\ filter \in Filters
  BY <1>1 DEF TypeOK
<1>3. Left(res[r])
  BY <1>1 DEF ResponseInv, Recorded, Status, Left, TypeOK
<1>4. Answers(res[r], exception[r], o)
  BY <1>2, <1>3, FilterAnswers
<1>5. /\ res' = [res EXCEPT ![r] = o.res] /\ alive' = ~o.threw
      /\ stage' = [stage EXCEPT ![r] = then]
      /\ UNCHANGED <<filter, exception, calls, closing, correlated, id, log>>
  BY <1>1 DEF Catch
<1> HIDE DEF o
<1>6. /\ o.res \in Response /\ o.threw \in BOOLEAN /\ Sound(o.res) /\ Keeps(res[r], o.res)
      /\ ~o.threw => /\ o.res.ended /\ Fitting(exception[r], o.res.sentStatus)
                     /\ o.res.sentStatus = o.res.status
                     /\ o.res.sent = IF o.res.sentStatus \in NoBody \cup Empty
                                     THEN <<>> ELSE <<Error>>
      /\ o.threw => exception[r].kind \in Unanswerable \/ HeadersSent(o.res) \/ Spoilt(o.res)
  BY <1>4 DEF Answers
<1>7. /\ res'[r] = o.res /\ stage'[r] = then /\ then \in {"thrown", "caught"}
      /\ \A q \in Requests : q # r => res'[q] = res[q] /\ stage'[q] = stage[q]
  BY <1>1, <1>5 DEF TypeOK
<1>3a. TypeOK'
  <2>1. /\ stage' \in [Requests -> {"new", "handling", "thrown", "caught", "over"}]
        /\ res' \in [Requests -> Response] /\ alive' \in BOOLEAN
    BY <1>1, <1>5, <1>6, <1>7 DEF TypeOK
  <2>2. \A q \in Requests : stage'[q] \in {"thrown", "caught"} => exception'[q] \in Exceptions
    BY <1>1, <1>2, <1>5, <1>7 DEF TypeOK
  <2>3. \A q \in Requests : stage'[q] # "new" => id'[q] \in Nat
    BY <1>1, <1>5, <1>7 DEF TypeOK
  <2> QED
    BY <1>1, <1>5, <2>1, <2>2, <2>3 DEF TypeOK
<1>9. ResponseInv'
  <2> SUFFICES ASSUME NEW q \in Requests
               PROVE  (Sound(res[q]) /\ Recorded(q) /\ Status(q))'
    BY DEF ResponseInv
  <2>1. CASE q = r
    <3>1. Sound(res'[r])
      BY <1>6, <1>7
    <3>2. Recorded(r)'
      <4>1. CASE o.threw
        BY <4>1, <1>5, <1>7 DEF Recorded
      <4>2. CASE ~o.threw
        BY <4>2, <1>7 DEF Recorded
      <4> QED
        BY <1>6, <4>1, <4>2
    <3>3. Status(r)'
      BY <1>5, <1>6, <1>7 DEF Status, Agrees
    <3> QED
      BY <2>1, <3>1, <3>2, <3>3
  <2>2. CASE q # r
    BY <1>1, <1>5, <1>7, <2>2 DEF ResponseInv, Recorded, Status
  <2> QED
    BY <2>1, <2>2
<1>10. StatusOfException'
  BY <1>1, <1>5, <1>6, <1>7 DEF StatusOfException, OwnStatus, Fitting
<1>11. CrashHasCulprit'
  BY <1>5, <1>6, <1>7 DEF CrashHasCulprit, Unanswerable, Spoilt
<1>12. LogInv'
  <2>1. \A q \in Requests : Keeps(res[q], res'[q])
    BY <1>6, <1>7 DEF Keeps
  <2>2. \A q \in Requests : stage'[q] = "new" <=> stage[q] = "new"
    BY <1>1, <1>7
  <2> QED
    BY <1>1, <1>5, <2>1, <2>2, LogKept
<1> QED
  BY <1>3a, <1>9, <1>10, <1>11, <1>12 DEF HttpInv, LogInv

LEMMA LeaveStep ==
    ASSUME HttpInv, NEW r \in Requests, Leave(r)
    PROVE  HttpInv'
<1>1. /\ closing[r] = "open" /\ closing' = [closing EXCEPT ![r] = "left"]
      /\ UNCHANGED <<alive, filter, stage, exception, calls, res, correlated, id, log>>
  BY DEF Leave
<1>2. TypeOK'
  BY <1>1 DEF HttpInv, TypeOK
<1>3. ResponseInv' /\ StatusOfException' /\ CrashHasCulprit'
  <2>1. ResponseInv'
    BY <1>1 DEF HttpInv, ResponseInv, Recorded, Status
  <2>2. StatusOfException'
    BY <1>1 DEF HttpInv, StatusOfException
  <2>3. CrashHasCulprit'
    BY <1>1 DEF HttpInv, CrashHasCulprit, Unanswerable
  <2> QED
    BY <2>1, <2>2, <2>3
<1>4. Entries'
  <2>1. \A i \in 1..Len(log) : log[i].request \in Requests
    <3>1. \A i \in 1..Len(log) : log[i] \in Entry
      BY DEF HttpInv, TypeOK
    <3> QED
      BY <3>1 DEF Entry
  <2>2. \A q \in Requests : closing[q] = "finish" => closing'[q] = "finish"
    BY <1>1 DEF HttpInv, TypeOK
  <2> QED
    BY <1>1, <2>1, <2>2 DEF HttpInv, Entries
<1>5. Ids' /\ LogMatchesBody' /\ LogPairs'
  BY <1>1 DEF HttpInv, Ids, LogMatchesBody, LogPairs
<1> QED
  BY <1>2, <1>3, <1>4, <1>5 DEF HttpInv

LEMMA EmitErrorStep ==
    ASSUME HttpInv, NEW r \in Requests, EmitError(r)
    PROVE  HttpInv'
<1>1. /\ res[r].failing /\ alive' = FALSE
      /\ UNCHANGED <<filter, stage, exception, calls, res, closing, correlated, id, log>>
  BY DEF EmitError
<1>2. TypeOK'
  BY <1>1 DEF HttpInv, TypeOK
<1>3. ResponseInv'
  BY <1>1 DEF HttpInv, ResponseInv, Recorded, Status
<1>4. StatusOfException'
  BY <1>1 DEF HttpInv, StatusOfException
<1>5. CrashHasCulprit'
  BY <1>1 DEF CrashHasCulprit
<1>6. LogInv'
  BY <1>1, LogKept DEF HttpInv, LogInv, Keeps
<1> QED
  BY <1>2, <1>3, <1>4, <1>5, <1>6 DEF HttpInv, LogInv

\* m is the log l and one entry more.
Added(l, m, entry) ==
    /\ m \in Seq(Entry) /\ Len(m) = Len(l) + 1
    /\ \A i \in 1..Len(m) : i = Len(m) \/ i \in 1..Len(l)
    /\ \A i, j \in 1..Len(m) : i < j => i \in 1..Len(l)
    /\ m[Len(m)] = entry
    /\ \A i \in 1..Len(l) : m[i] = l[i]
    /\ \A i \in 1..Len(l) : l[i].request \in Requests /\ l[i].id \in Nat
    /\ \A i \in 1..Len(l) : l[i].kind \in {"HTTP Request", "HTTP Response"}

LEMMA EntryAdded ==
    ASSUME NEW l \in Seq(Entry), NEW entry \in Entry
    PROVE  Added(l, Append(l, entry), entry)
<1> DEFINE m == Append(l, entry)
<1>1. m \in Seq(Entry) /\ Len(m) = Len(l) + 1 /\ Len(l) \in Nat
  OBVIOUS
<1>2. m[Len(l) + 1] = entry /\ \A i \in 1..Len(l) : m[i] = l[i]
  OBVIOUS
<1>3. \A i \in 1..Len(l) : l[i] \in Entry
  OBVIOUS
<1>4. /\ \A i \in 1..Len(l) : l[i].request \in Requests /\ l[i].id \in Nat
      /\ \A i \in 1..Len(l) : l[i].kind \in {"HTTP Request", "HTTP Response"}
  BY <1>3 DEF Entry
<1> HIDE DEF m
<1>5. /\ \A i \in 1..Len(m) : i = Len(m) \/ i \in 1..Len(l)
      /\ \A i, j \in 1..Len(m) : i < j => i \in 1..Len(l)
  BY <1>1
<1>6. m[Len(m)] = entry
  BY <1>1, <1>2
<1>7. Added(l, m, entry)
  BY <1>1, <1>2, <1>4, <1>5, <1>6 DEF Added
<1> QED
  BY <1>7 DEF m

LEMMA ArriveStep ==
    ASSUME HttpInv, NEW r \in Requests, Arrive(r)
    PROVE  HttpInv'
<1> DEFINE entry == [kind |-> "HTTP Request", id |-> correlated, request |-> r,
                     status |-> Unset, body |-> <<>>]
<1>1. /\ alive /\ stage[r] = "new"
      /\ stage' = [stage EXCEPT ![r] = "handling"]
      /\ id' = [id EXCEPT ![r] = correlated] /\ correlated' = correlated + 1
      /\ log' = Append(log, entry)
      /\ UNCHANGED <<alive, filter, exception, calls, res, closing>>
  BY DEF Arrive, GetCorrelationId
<1>2. TypeOK /\ ResponseInv /\ Entries /\ Ids /\ LogMatchesBody /\ LogPairs
  BY DEF HttpInv
<1>3. /\ correlated \in Nat /\ log \in Seq(Entry)
      /\ stage'[r] = "handling" /\ id'[r] = correlated
      /\ \A q \in Requests : q # r => stage'[q] = stage[q] /\ id'[q] = id[q]
      /\ \A q \in Requests : stage[q] # "new" => id[q] \in Nat
  BY <1>1, <1>2 DEF TypeOK
<1>4. entry \in Entry /\ entry.id = correlated /\ entry.request = r
      /\ entry.kind = "HTTP Request"
  <2>1. <<>> \in Seq(Chunks)
    OBVIOUS
  <2> QED
    BY <1>3, <2>1 DEF Entry
<1> HIDE DEF entry
<1> DEFINE n == Len(log')
<1>5. Added(log, log', entry)
  <2>1. entry \in Entry /\ log \in Seq(Entry) /\ log' = Append(log, entry)
    BY <1>1, <1>3, <1>4
  <2>2. Added(log, Append(log, entry), entry)
    BY ONLY <2>1, EntryAdded
  <2> QED
    BY <2>1, <2>2
<1>6. /\ log' \in Seq(Entry)
      /\ \A i \in 1..n : i = n \/ i \in 1..Len(log)
      /\ \A i, j \in 1..n : i < j => i \in 1..Len(log)
      /\ log'[n] = entry
      /\ \A i \in 1..Len(log) : log'[i] = log[i]
      /\ \A i \in 1..Len(log) : log[i].request \in Requests /\ log[i].id \in Nat
      /\ \A i \in 1..Len(log) : log[i].kind \in {"HTTP Request", "HTTP Response"}
  BY <1>5 DEF Added
<1> HIDE DEF n
<1>7. TypeOK'
  <2>1. /\ stage' \in [Requests -> {"new", "handling", "thrown", "caught", "over"}]
        /\ id' \in [Requests -> Nat \cup {Unset}] /\ correlated' \in Nat
    BY <1>1, <1>2 DEF TypeOK
  <2>2. \A q \in Requests : stage'[q] \in {"thrown", "caught"} => exception'[q] \in Exceptions
    BY <1>1, <1>2, <1>3 DEF TypeOK
  <2>3. \A q \in Requests : stage'[q] # "new" => id'[q] \in Nat
    BY <1>3
  <2> QED
    BY <1>1, <1>2, <1>6, <2>1, <2>2, <2>3 DEF TypeOK
<1>3a. ResponseInv'
  BY <1>1, <1>2, <1>3 DEF ResponseInv, Recorded, Status
<1>9. StatusOfException' /\ CrashHasCulprit'
  BY <1>1, <1>3 DEF HttpInv, StatusOfException, CrashHasCulprit
<1>10. Entries'
  <2> SUFFICES ASSUME NEW i \in 1..n
               PROVE  /\ stage'[log'[i].request] # "new"
                      /\ log'[i].id = id'[log'[i].request]
                      /\ log'[i].kind = "HTTP Response" =>
                             closing'[log'[i].request] = "finish" /\ res'[log'[i].request].ended
    BY DEF n, Entries
  <2>1. CASE i = n
    <3>1. log'[i] = entry
      BY <1>6, <2>1
    <3> QED
      BY <1>3, <1>4, <3>1
  <2>2. CASE i \in 1..Len(log)
    <3> DEFINE q == log[i].request
    <3>1. log'[i] = log[i] /\ q \in Requests
      BY <1>6, <2>2
    <3>2. /\ stage[q] # "new" /\ log[i].id = id[q]
          /\ log[i].kind = "HTTP Response" => closing[q] = "finish" /\ res[q].ended
      BY <1>2, <2>2 DEF Entries
    <3>3. /\ stage'[q] # "new" /\ id'[q] = id[q] /\ res'[q] = res[q]
          /\ closing[q] = "finish" => closing'[q] = "finish"
      BY <1>1, <1>3, <3>1, <3>2
    <3> HIDE DEF q
    <3>4. log'[i].request = q
      BY <3>1 DEF q
    <3> QED
      BY <3>1, <3>2, <3>3, <3>4
  <2> QED
    BY <1>6, <2>1, <2>2
<1>11. Ids'
  <2>1. \A q \in Requests : stage'[q] # "new" => id'[q] < correlated'
    BY <1>1, <1>2, <1>3 DEF Ids
  <2>2. \A p, q \in Requests : stage'[p] # "new" /\ stage'[q] # "new" /\ id'[p] = id'[q] => p = q
    BY <1>1, <1>2, <1>3 DEF Ids
  <2> QED
    BY <2>1, <2>2 DEF Ids
<1>12. LogMatchesBody'
  <2> SUFFICES ASSUME NEW i \in 1..n, log'[i].kind = "HTTP Response"
               PROVE  LET w == res'[log'[i].request]
                      IN  /\ w.again \/ Delivers(w, log'[i].body)
                          /\ w.late \/ log'[i].status = w.sentStatus
    BY DEF n, LogMatchesBody
  <2>1. i \in 1..Len(log)
    BY <1>4, <1>6
  <2> QED
    BY <1>1, <1>2, <1>6, <2>1 DEF LogMatchesBody
<1>13. LogPairs'
  <2> SUFFICES ASSUME NEW i \in 1..n, NEW j \in 1..n, i < j, log'[i].id = log'[j].id
               PROVE  /\ log'[i].request = log'[j].request
                      /\ log'[i].kind = "HTTP Request" /\ log'[j].kind = "HTTP Response"
    BY DEF n, LogPairs
  <2>1. i \in 1..Len(log)
    BY <1>6
  <2>2. CASE j = n
    <3>1. log[i].id < correlated
      BY <1>2, <1>6, <2>1 DEF Entries, Ids
    <3>2. log'[i].id = log[i].id /\ log'[j].id = correlated
      BY <1>4, <1>6, <2>1, <2>2
    <3> QED
      <4>1. log[i].id = correlated
        BY <3>2
      <4>2. correlated < correlated
        BY <3>1, <4>1
      <4>3. correlated \in Nat
        BY <1>2 DEF TypeOK
      <4>4. \A k \in Nat : ~(k < k)
        OBVIOUS
      <4> QED
        BY <4>2, <4>3, <4>4, Zenon
  <2>3. CASE j \in 1..Len(log)
    BY <1>2, <1>6, <2>1, <2>3 DEF LogPairs
  <2> QED
    BY <1>6, <2>2, <2>3
<1> QED
  BY <1>7, <1>3a, <1>9, <1>10, <1>11, <1>12, <1>13 DEF HttpInv

LEMMA FinishStep ==
    ASSUME HttpInv, NEW r \in Requests, Finish(r)
    PROVE  HttpInv'
<1> DEFINE entry == [kind |-> "HTTP Response", id |-> id[r], request |-> r,
                     status |-> res[r].status, body |-> res[r].responseBody]
<1>1. /\ alive /\ res[r].ended /\ closing[r] = "open"
      /\ closing' = [closing EXCEPT ![r] = "finish"]
      /\ log' = Append(log, entry)
      /\ UNCHANGED <<alive, filter, stage, exception, calls, res, correlated, id>>
  BY DEF Finish, LoggedId
<1>2. TypeOK /\ ResponseInv /\ Entries /\ Ids /\ LogMatchesBody /\ LogPairs
  BY DEF HttpInv
<1>3. Sound(res[r]) /\ Recorded(r) /\ Status(r) /\ res[r] \in Response
  BY <1>2 DEF ResponseInv, TypeOK
<1>4. /\ stage[r] # "new" /\ id[r] \in Nat /\ log \in Seq(Entry)
      /\ closing'[r] = "finish" /\ \A q \in Requests : q # r => closing'[q] = closing[q]
  BY <1>1, <1>2, <1>3 DEF Recorded, TypeOK
<1>5. /\ entry \in Entry /\ entry.id = id[r] /\ entry.request = r
      /\ entry.kind = "HTTP Response"
      /\ res[r].again \/ Delivers(res[r], entry.body)
      /\ res[r].late \/ entry.status = res[r].sentStatus
  <2>1. res[r].status \in 100..599 \cup {Unset} /\ res[r].responseBody \in Seq(Chunks)
    BY <1>3 DEF Response
  <2>3. entry \in Entry
    BY <1>4, <2>1 DEF Entry
  <2>2. /\ res[r].again \/ Delivers(res[r], res[r].responseBody)
        /\ res[r].late \/ res[r].status = res[r].sentStatus
    BY <1>1, <1>3 DEF Sound, Status, Agrees
  <2>4. /\ entry.id = id[r] /\ entry.request = r /\ entry.kind = "HTTP Response"
        /\ entry.body = res[r].responseBody /\ entry.status = res[r].status
    OBVIOUS
  <2> HIDE DEF entry
  <2> QED
    BY <2>2, <2>3, <2>4
<1> HIDE DEF entry
<1> DEFINE n == Len(log')
<1>6. Added(log, log', entry)
  <2>1. entry \in Entry /\ log \in Seq(Entry) /\ log' = Append(log, entry)
    BY <1>1, <1>4, <1>5
  <2>2. Added(log, Append(log, entry), entry)
    BY ONLY <2>1, EntryAdded
  <2> QED
    BY <2>1, <2>2
<1>7. /\ log' \in Seq(Entry)
      /\ \A i \in 1..n : i = n \/ i \in 1..Len(log)
      /\ \A i, j \in 1..n : i < j => i \in 1..Len(log)
      /\ log'[n] = entry
      /\ \A i \in 1..Len(log) : log'[i] = log[i]
      /\ \A i \in 1..Len(log) : log[i].request \in Requests /\ log[i].id \in Nat
      /\ \A i \in 1..Len(log) : log[i].kind \in {"HTTP Request", "HTTP Response"}
  BY <1>6 DEF Added
<1> HIDE DEF n
<1>3a. TypeOK'
  BY <1>1, <1>2, <1>7 DEF TypeOK
<1>9. ResponseInv'
  BY <1>1, <1>2 DEF ResponseInv, Recorded, Status
<1>10. StatusOfException' /\ CrashHasCulprit'
  BY <1>1 DEF HttpInv, StatusOfException, CrashHasCulprit
<1>11. Entries'
  <2> SUFFICES ASSUME NEW i \in 1..n
               PROVE  /\ stage'[log'[i].request] # "new"
                      /\ log'[i].id = id'[log'[i].request]
                      /\ log'[i].kind = "HTTP Response" =>
                             closing'[log'[i].request] = "finish" /\ res'[log'[i].request].ended
    BY DEF n, Entries
  <2>1. CASE i = n
    <3>1. log'[i] = entry
      BY <1>7, <2>1
    <3> QED
      BY <1>1, <1>2, <1>4, <1>5, <3>1
  <2>2. CASE i \in 1..Len(log)
    <3> DEFINE q == log[i].request
    <3>1. log'[i] = log[i] /\ q \in Requests
      BY <1>7, <2>2
    <3>2. /\ stage[q] # "new" /\ log[i].id = id[q]
          /\ log[i].kind = "HTTP Response" => closing[q] = "finish" /\ res[q].ended
      BY <1>2, <2>2 DEF Entries
    <3>3. /\ stage'[q] # "new" /\ id'[q] = id[q] /\ res'[q] = res[q]
          /\ closing[q] = "finish" => closing'[q] = "finish"
      BY <1>1, <1>4, <3>1, <3>2
    <3> HIDE DEF q
    <3>4. log'[i].request = q
      BY <3>1 DEF q
    <3> QED
      BY <3>1, <3>2, <3>3, <3>4
  <2> QED
    BY <1>7, <2>1, <2>2
<1>12. Ids'
  BY <1>1, <1>2 DEF Ids
<1>13. LogMatchesBody'
  <2> SUFFICES ASSUME NEW i \in 1..n, log'[i].kind = "HTTP Response"
               PROVE  LET w == res'[log'[i].request]
                      IN  /\ w.again \/ Delivers(w, log'[i].body)
                          /\ w.late \/ log'[i].status = w.sentStatus
    BY DEF n, LogMatchesBody
  <2>1. CASE i = n
    BY <1>1, <1>5, <1>7, <2>1
  <2>2. CASE i \in 1..Len(log)
    BY <1>1, <1>2, <1>7, <2>2 DEF LogMatchesBody
  <2> QED
    BY <1>7, <2>1, <2>2
<1>14. LogPairs'
  <2> SUFFICES ASSUME NEW i \in 1..n, NEW j \in 1..n, i < j, log'[i].id = log'[j].id
               PROVE  /\ log'[i].request = log'[j].request
                      /\ log'[i].kind = "HTTP Request" /\ log'[j].kind = "HTTP Response"
    BY DEF n, LogPairs
  <2>1. i \in 1..Len(log)
    BY <1>7
  <2>2. CASE j = n
    <3>1. log[i].id = id[r] /\ log[i].id = id[log[i].request] /\ stage[log[i].request] # "new"
      BY <1>2, <1>5, <1>7, <2>1, <2>2 DEF Entries
    <3>2. log[i].request = r
      BY <1>2, <1>4, <1>7, <2>1, <3>1 DEF Ids
    <3>3. log[i].kind # "HTTP Response"
      BY <1>1, <1>2, <2>1, <3>2 DEF Entries
    <3> QED
      BY <1>5, <1>7, <2>1, <2>2, <3>2, <3>3
  <2>3. CASE j \in 1..Len(log)
    BY <1>2, <1>7, <2>1, <2>3 DEF LogPairs
  <2> QED
    BY <1>7, <2>2, <2>3
<1> QED
  BY <1>3a, <1>9, <1>10, <1>11, <1>12, <1>13, <1>14 DEF HttpInv

-----------------------------------------------------------------------------
(* The theorems.                                                            *)

LEMMA HttpInvInit == Init => HttpInv
<1> SUFFICES ASSUME Init PROVE HttpInv
  OBVIOUS
<1>1. /\ NewResponse \in Response /\ Sound(NewResponse) /\ NewResponse.status \in 100..599
      /\ ~HeadersSent(NewResponse) /\ ~NewResponse.ended /\ ~NewResponse.pageHeaders
      /\ Delivers(NewResponse, NewResponse.chunks) /\ Agrees(NewResponse)
  <2>1. <<>> \in Seq(Chunks) /\ Elements(<<>>) = {}
    BY DEF Elements
  <2>2. 200 \in 100..599
    OBVIOUS
  <2>3. NewResponse \in Response
    BY <2>1, <2>2 DEF NewResponse, Response
  <2> QED
    BY <2>1, <2>2, <2>3 DEF NewResponse, Sound, HeadersSent, Delivers, Agrees
<1>2. TypeOK
  BY <1>1, HttpAssumption DEF Init, TypeOK
<1>3. ResponseInv
  BY <1>1 DEF Init, ResponseInv, Recorded, Status
<1>4. StatusOfException /\ CrashHasCulprit
  BY DEF Init, StatusOfException, CrashHasCulprit
<1>5. Entries /\ Ids /\ LogMatchesBody /\ LogPairs
  BY DEF Init, Entries, Ids, LogMatchesBody, LogPairs
<1> QED
  BY <1>2, <1>3, <1>4, <1>5 DEF HttpInv

LEMMA HttpInvNext == HttpInv /\ [Next]_vars => HttpInv'
<1> SUFFICES ASSUME HttpInv, [Next]_vars PROVE HttpInv'
  OBVIOUS
<1>1. CASE UNCHANGED vars
  <2>1. TypeOK'
    BY <1>1 DEF HttpInv, vars, TypeOK
  <2>2. ResponseInv'
    BY <1>1 DEF HttpInv, vars, ResponseInv, Recorded, Status
  <2>3. StatusOfException'
    BY <1>1 DEF HttpInv, vars, StatusOfException
  <2>4. CrashHasCulprit'
    BY <1>1 DEF HttpInv, vars, CrashHasCulprit, Unanswerable
  <2>5. Entries' /\ Ids'
    BY <1>1 DEF HttpInv, vars, Entries, Ids
  <2>6. LogMatchesBody' /\ LogPairs'
    BY <1>1 DEF HttpInv, vars, LogMatchesBody, LogPairs
  <2> QED
    BY <2>1, <2>2, <2>3, <2>4, <2>5, <2>6 DEF HttpInv
<1>2. CASE Next
  <2>1. PICK r \in Requests :
            \/ Arrive(r) \/ Write(r) \/ End(r) \/ SetStatus(r) \/ Reply(r) \/ ReplyPage(r)
            \/ Return(r) \/ Throw(r) \/ Catch(r) \/ Finish(r) \/ EmitError(r) \/ Leave(r)
    BY <1>2 DEF Next
  <2> QED
    BY <2>1, ArriveStep, CallsStep, ThrowStep, CatchStep, FinishStep, EmitErrorStep,
       LeaveStep
<1> QED
  BY <1>1, <1>2

LEMMA HttpInvHolds == Spec => []HttpInv
  BY HttpInvInit, HttpInvNext, PTL DEF Spec

\* For any number of overlapping requests, whatever their handlers set, write and throw:
\* variables keep their types.
THEOREM HttpTypeCorrect == Spec => []TypeOK
<1>1. HttpInv => TypeOK
  BY DEF HttpInv
<1> QED
  BY <1>1, HttpInvHolds, PTL

\* What the response log says was sent was sent, with that status unless a handler set
\* another one too late.
THEOREM LogIsTrue == Spec => []LogMatchesBody
<1>1. HttpInv => LogMatchesBody
  BY DEF HttpInv
<1> QED
  BY <1>1, HttpInvHolds, PTL

\* Entries of one correlation id are one request's, and in order.
THEOREM LogIsPaired == Spec => []LogPairs
<1>1. HttpInv => LogPairs
  BY DEF HttpInv
<1> QED
  BY <1>1, HttpInvHolds, PTL

\* Only a request of the named kinds takes the process down: by what it throws, when,
\* or by a chunk after the end.
THEOREM CrashesAreExplained == Spec => []CrashHasCulprit
<1>1. HttpInv => CrashHasCulprit
  BY DEF HttpInv
<1> QED
  BY <1>1, HttpInvHolds, PTL

\* An exception that was caught is answered alone, with its own status or 500, or with
\* the one AllExceptionsFilter finds in its response.
THEOREM ExceptionsKeepStatus == Spec => []StatusOfException
<1>1. HttpInv => StatusOfException
  BY DEF HttpInv
<1> QED
  BY <1>1, HttpInvHolds, PTL

\* Items of a page and the headers of the page go out together.
THEOREM PageHeadersAgree == Spec => []PageHeadersMatchBody
<1>1. HttpInv => PageHeadersMatchBody
  BY DEF HttpInv, ResponseInv, Sound, PageHeadersMatchBody
<1> QED
  BY <1>1, HttpInvHolds, PTL

=============================================================================
