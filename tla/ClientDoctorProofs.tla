-------------------------- MODULE ClientDoctorProofs --------------------------
(***************************************************************************)
(* Theorems about ClientDoctor, for any server, proxy, arguments, limits   *)
(* and pace of generation, and for any number of changes of the server.    *)
(***************************************************************************)
EXTENDS ClientDoctor, TLAPS

(***************************************************************************)
(* The inductive invariant, in parts.                                      *)
(***************************************************************************)

\* The order of the requests: what is on its way belongs to the check that is
\* next, only the last check streams, and it is the last to say anything.
Order ==
    /\ stage # "unsent" => Generating
    /\ stage = "ended" => pc = "stream"
    /\ stage = "unsent" /\ pc # "done" => silent = 0
    /\ pc # "done" /\ (pc # "stream" \/ stage = "unsent") => stream = NoStream
    /\ finding.check = "stream" => pc = "done"
    /\ pc # "done" => exit = "running"
    /\ pc \notin {"stream", "done"} => ~worst

\* The books of the stream: every frame is still to come, held, on the wire or
\* read, unless it was lost with the server.
Books ==
    /\ pc = "stream" => stream.lines < MaxLines
    /\ stream.frames <= stream.lines
    /\ stream.frames + stream.wire.frames + stream.held.frames <= stream.made
    /\ pc = "stream" /\ stage \notin {"broken", "lost"} =>
          stream.frames + stream.wire.frames + stream.held.frames = stream.made
    /\ stage = "queued" => stream.made = 0
    /\ pc = "stream" /\ stage = "running" => stream.made + stream.left > 0
    /\ stage = "ended" => stream.made > 0
    /\ front # "holds" => stream.held = NoLines

\* The check waits beyond the limit of time only for the line that is next.
Clock ==
    /\ pc = "stream" => stream.elapsed < MaxSeconds + silent
    /\ pc = "stream" /\ stream.lines = 0 => stream.elapsed = silent
    /\ NotForever

\* What is not buffered arrives as it is generated: more frames than one step
\* yields are a gap apart.
Pace ==
    front # "holds" =>
      /\ stage = "running" /\ stream.wire.frames > 0 => stream.rest = Gap
      /\ stream.frames = 0 => stream.wire.frames <= Burst
      /\ stream.frames > 0 /\ stream.frames + stream.wire.frames > Burst =>
            stream.first + Gap <= stream.elapsed
      /\ stream.frames > Burst => stream.first + Gap <= stream.last
      /\ stage = "running" /\ stream.frames > 0 =>
            stream.first + Gap <= stream.elapsed + stream.rest

\* What is buffered arrives at one moment, within the timeout.
Withheld ==
    front = "holds" =>
      /\ pc = "stream" /\ stage # "ended" => stream.lines = 0 /\ stream.wire = NoLines
      /\ stage = "ended" =>
            /\ stream.held = NoLines
            /\ stream.elapsed <= args.timeout
            /\ stream.frames > 0 => stream.first = stream.elapsed /\ stream.last = stream.elapsed

\* What the checks that passed have shown of a server that did not change
Shown ==
    changes = 0 =>
      /\ stage \notin {"broken", "lost"}
      /\ pc \in {"context", "slots", "completion", "tools", "stream"} =>
            /\ state = "up" /\ front # "page" /\ config.key
            /\ config.alias \in (IF args.api = "anthropic" THEN {"claude"} ELSE {"same", "claude"})
      /\ pc \in {"slots", "completion", "tools", "stream"} => (args.pinned => config.fits)
      /\ pc = "tools" /\ stage # "unsent" => config.jinja
      /\ pc = "stream" /\ ~worst => config.jinja /\ config.model = "calls"

DoctorInv == TypeOK /\ Order /\ Books /\ Clock /\ Pace /\ Withheld /\ Shown

-----------------------------------------------------------------------------
(* What one observation is taken for.                                      *)

\* The cause that diagnose names, for every answer that may come.
LEMMA Diagnoses ==
    /\ \A body : Diagnose(Answer(0, body)) = "UNREACHABLE"
    /\ \A body : Diagnose(Answer(200, body)) = "OK"
    /\ \A body : Diagnose(Answer(401, body)) = "UNAUTHORISED"
    /\ \A body : Diagnose(Answer(404, body)) = "BAD_ENDPOINT"
    /\ Diagnose(Answer(503, "loading")) = "LOADING"
    /\ Diagnose(Answer(502, "page")) = "SERVER_ERROR"
    /\ Diagnose(Answer(500, "error")) = "SERVER_ERROR"
    /\ Diagnose(Answer(500, "jinja")) = "NOT_ENABLED"
  BY DEF Answer, Diagnose, ServerError

\* And what the checks that generate make of it
LEMMA Generates ==
    /\ \A body : Generated(Answer(0, body)) = "UNREACHABLE"
    /\ \A body : Generated(Answer(401, body)) = "UNAUTHORISED"
    /\ \A body : Generated(Answer(404, body)) = "BAD_ENDPOINT"
    /\ Generated(Answer(503, "loading")) = "LOADING"
    /\ Generated(Answer(502, "page")) = "SERVER_ERROR"
    /\ Generated(Answer(500, "error")) = "SERVER_ERROR"
    /\ Generated(Answer(500, "jinja")) = "NOT_ENABLED"
    /\ Generated(Answer(200, "page")) = "BAD_ENDPOINT"
    /\ \A body \in {"json", "empty"} :
          Generated(Answer(200, body)) = IF pc = "tools" THEN "TOOLS_IGNORED" ELSE "SERVER_ERROR"
    /\ pc = "tools" => /\ Generated(Answer(200, "prose")) = "TOOLS_IGNORED"
                       /\ Generated(Answer(200, "broken")) = "TOOLS_MALFORMED"
                       /\ Generated(Answer(200, "calls")) = "OK"
    /\ pc # "tools" => Generated(Answer(200, "text")) = "OK"
<1>1. \A a : Diagnose(a) # "OK" => Generated(a) = Diagnose(a)
  BY DEF Generated
<1>2. /\ \A body : Generated(Answer(0, body)) = "UNREACHABLE"
      /\ \A body : Generated(Answer(401, body)) = "UNAUTHORISED"
      /\ \A body : Generated(Answer(404, body)) = "BAD_ENDPOINT"
  BY <1>1, Diagnoses
<1>3. /\ Generated(Answer(503, "loading")) = "LOADING"
      /\ Generated(Answer(502, "page")) = "SERVER_ERROR"
      /\ Generated(Answer(500, "error")) = "SERVER_ERROR"
      /\ Generated(Answer(500, "jinja")) = "NOT_ENABLED"
  BY <1>1, Diagnoses
<1>4. \A body : /\ Answer(200, body).body = body
                /\ Generated(Answer(200, body)) =
                     IF pc = "tools" THEN ToolsCalled(Answer(200, body))
                     ELSE Completed(Answer(200, body))
  <2>1. \A a : Diagnose(a) = "OK" =>
                Generated(a) = IF pc = "tools" THEN ToolsCalled(a) ELSE Completed(a)
    BY DEF Generated
  <2>2. \A body : Answer(200, body).body = body
    BY DEF Answer
  <2> QED
    BY <2>1, <2>2, Diagnoses
<1>5. /\ \A body : ToolsCalled(Answer(200, body)) =
                     CASE body = "page" -> "BAD_ENDPOINT"
                       [] body \in {"prose", "json", "empty"} -> "TOOLS_IGNORED"
                       [] body = "broken" -> "TOOLS_MALFORMED"
                       [] OTHER -> "OK"
      /\ \A body : Completed(Answer(200, body)) =
                     CASE body = "page" -> "BAD_ENDPOINT"
                       [] body \in {"json", "empty"} -> "SERVER_ERROR"
                       [] OTHER -> "OK"
  BY <1>4 DEF ToolsCalled, Completed
<1>6. /\ ToolsCalled(Answer(200, "page")) = "BAD_ENDPOINT"
      /\ \A body \in {"prose", "json", "empty"} : ToolsCalled(Answer(200, body)) = "TOOLS_IGNORED"
      /\ ToolsCalled(Answer(200, "broken")) = "TOOLS_MALFORMED"
      /\ ToolsCalled(Answer(200, "calls")) = "OK"
  BY <1>5
<1>7. /\ Completed(Answer(200, "page")) = "BAD_ENDPOINT"
      /\ \A body \in {"json", "empty"} : Completed(Answer(200, body)) = "SERVER_ERROR"
      /\ Completed(Answer(200, "text")) = "OK"
  BY <1>5
<1> QED
  BY <1>2, <1>3, <1>4, <1>6, <1>7

LEMMA UnreadyAnswers ==
    \A a \in Unready :
      \/ front = "page" /\ a = Answer(200, "page")
      \/ front = "page" /\ a \in {Answer(200, "json"), Answer(404, "page")}
      \/ front # "page" /\ front = "none" /\ state = "down" /\ a \in {Answer(0, "refused"), Answer(0, "timeout")}
      \/ front # "page" /\ front # "none" /\ state = "down" /\ a \in ErrorPages
      \/ front # "page" /\ state = "loading" /\ a = Answer(503, "loading")
  BY DEF Unready

LEMMA KeyedAnswers ==
    ASSUME NEW answer
    PROVE  \A a \in Keyed(answer) :
             \/ a \in Unready
             \/ Ready /\ ~config.key /\ a = Answer(401, "key")
             \/ Ready /\ config.key /\ a = answer
  BY DEF Keyed

LEMMA HealthFound == \A a \in Health : Diagnose(a) \in Found("health")
<1>1. SUFFICES ASSUME NEW a \in Health PROVE Diagnose(a) \in {"OK", "UNREACHABLE", "LOADING", "BAD_ENDPOINT", "SERVER_ERROR"}
  BY DEF Found
<1>2. CASE a \in Unready
  BY <1>2, UnreadyAnswers, Diagnoses DEF ErrorPages
<1>3. CASE a = Answer(200, "ok")
  BY <1>3, Diagnoses
<1> QED
  BY <1>2, <1>3 DEF Health

LEMMA KeyFound ==
    \A a \in Keyed(Answer(200, "models")) :
      /\ Diagnose(a) \in Found("key")
      /\ Visibility(a) \in Found("model")
<1>1. TAKE a \in Keyed(Answer(200, "models"))
<1>2. CASE a \in Unready
  <2>1. Diagnose(a) \in {"OK", "UNREACHABLE", "LOADING", "BAD_ENDPOINT", "SERVER_ERROR"}
    BY <1>2, UnreadyAnswers, Diagnoses DEF ErrorPages
  <2> QED
    BY <2>1 DEF Found, Visibility
<1>3. CASE a \in {Answer(401, "key"), Answer(200, "models")}
  <2>1. Diagnose(a) \in {"UNAUTHORISED", "OK"}
    BY <1>3, Diagnoses
  <2> QED
    BY <2>1 DEF Found, Visibility
<1> QED
  BY <1>2, <1>3, KeyedAnswers

\* A reply is judged by three outcomes.
LEMMA JudgedFound ==
    ASSUME NEW s
    PROVE  Judged(s) \in {"OK", "STREAM_UNSUPPORTED", "STREAM_BUFFERED"}
  BY DEF Judged

\* What is refused is no success, in front of another site neither.
LEMMA RefusedFound ==
    ASSUME NEW a \in Refusals
    PROVE  /\ \/ Generated(a) \in {"UNREACHABLE", "LOADING", "UNAUTHORISED", "BAD_ENDPOINT",
                                   "SERVER_ERROR", "NOT_ENABLED"}
              \/ pc = "tools" /\ Generated(a) = "TOOLS_IGNORED"
           /\ Generated(a) = "NOT_ENABLED" => pc = "tools" /\ ~config.jinja
           /\ Ready /\ config.key => Generated(a) = "NOT_ENABLED"
<1>1. CASE a \in Unready
  <2>1. \/ Generated(a) \in {"UNREACHABLE", "LOADING", "BAD_ENDPOINT", "SERVER_ERROR"}
        \/ pc = "tools" /\ Generated(a) = "TOOLS_IGNORED"
    BY <1>1, UnreadyAnswers, Generates DEF ErrorPages
  <2> QED
    BY <1>1, <2>1 DEF Ready
<1>2. CASE a = Answer(401, "key") /\ ~config.key
  BY <1>2, Generates
<1>3. CASE a = Answer(500, "jinja") /\ pc = "tools" /\ ~config.jinja
  BY <1>3, Generates
<1> QED
  BY <1>1, <1>2, <1>3, KeyedAnswers DEF Refusals

ClosedAnswers == {Answer(0, "reset")} \union (IF front = "none" THEN {} ELSE ErrorPages)

LEMMA ClosedFound ==
    ASSUME NEW a \in ClosedAnswers
    PROVE  /\ \/ Generated(a) \in {"UNREACHABLE", "SERVER_ERROR", "BAD_ENDPOINT"}
              \/ pc = "tools" /\ Generated(a) = "TOOLS_IGNORED"
           /\ front = "none" => Generated(a) = "UNREACHABLE"
  BY Generates DEF ClosedAnswers, ErrorPages

\* Some reply of the server
Replied == \E a \in Replies : Reply(a)

LEMMA ReplyFound ==
    ASSUME TypeOK, NEW a \in Replies
    PROVE  /\ pc # "tools" => Generated(a) \in {"OK", "SERVER_ERROR"}
           /\ pc = "tools" =>
                 Generated(a) \in {"OK", "SERVER_ERROR", "TOOLS_IGNORED", "TOOLS_MALFORMED"}
           /\ pc = "tools" /\ Generated(a) = "OK" => config.model = "calls"
           /\ a # Empty /\ (pc # "tools" \/ config.model = "calls") => Generated(a) = "OK"
<1>1. config.model \in {"calls", "prose", "broken"}
  BY DoctorAssumption DEF TypeOK, ConfigType
<1>2. CASE a = Answer(200, "empty")
  BY <1>2, Generates DEF Empty
<1>3. CASE pc = "tools" /\ a = ToolReply
  BY <1>1, <1>3, Generates DEF ToolReply
<1>4. CASE pc # "tools" /\ a = Answer(200, "text")
  BY <1>4, Generates
<1> QED
  BY <1>2, <1>3, <1>4 DEF Replies, Empty

-----------------------------------------------------------------------------
(* What each step makes of the stream.                                     *)

SameReading(s, t) ==
    t.elapsed = s.elapsed /\ t.lines = s.lines /\ t.frames = s.frames /\ t.first = s.first /\ t.last = s.last

LEMMA Typed ==
    ASSUME TypeOK
    PROVE  /\ stream.made \in Nat /\ stream.left \in Nat /\ stream.rest \in Nat
           /\ stream.pinged \in BOOLEAN
           /\ stream.held \in LinesType /\ stream.wire \in LinesType
           /\ stream.wire.frames \in Nat /\ stream.wire.others \in Nat
           /\ stream.held.frames \in Nat /\ stream.held.others \in Nat
           /\ stream.elapsed \in Nat /\ stream.lines \in Nat /\ stream.frames \in Nat
           /\ stream.first \in Nat /\ stream.last \in Nat
           /\ args.timeout \in Nat /\ silent \in Nat
  BY DoctorAssumption DEF TypeOK, StreamType, LinesType

LEMMA PlusTyped ==
    ASSUME NEW a \in LinesType, NEW b \in LinesType
    PROVE  /\ Plus(a, b) \in LinesType
           /\ Plus(a, b).frames = a.frames + b.frames
           /\ Plus(a, b).others = a.others + b.others
  BY DEF Plus, LinesType

LEMMA SentFields ==
    ASSUME NEW s \in StreamType, NEW lines \in LinesType
    PROVE  /\ Sent(s, lines) \in StreamType
           /\ SameReading(s, Sent(s, lines))
           /\ Sent(s, lines).made = s.made /\ Sent(s, lines).left = s.left
           /\ Sent(s, lines).rest = s.rest /\ Sent(s, lines).pinged = s.pinged
           /\ front = "holds" => /\ Sent(s, lines).wire = s.wire
                                 /\ Sent(s, lines).held = Plus(s.held, lines)
           /\ front # "holds" => /\ Sent(s, lines).held = s.held
                                 /\ Sent(s, lines).wire = Plus(s.wire, lines)
<1>1. Plus(s.held, lines) \in LinesType /\ Plus(s.wire, lines) \in LinesType
  BY PlusTyped DEF StreamType
<1> QED
  BY <1>1 DEF Sent, StreamType, SameReading

LEMMA EmitFields ==
    ASSUME TypeOK, Emit
    PROVE  \E b \in 1..Burst :
             /\ stream' \in StreamType /\ SameReading(stream, stream')
             /\ stream'.made = stream.made + b
             /\ stream.left = stream'.left + b
             /\ stream'.rest = Gap
             /\ front = "holds" => /\ stream'.wire = stream.wire
                                   /\ stream'.held.frames = stream.held.frames + b
                                   /\ stream'.held.others = stream.held.others
             /\ front # "holds" => /\ stream'.held = stream.held
                                   /\ stream'.wire.frames = stream.wire.frames + b
                                   /\ stream'.wire.others = stream.wire.others
<1>1. PICK b \in 1..Burst :
        /\ b <= stream.left
        /\ stream' = [Sent(stream, [frames |-> b, others |-> 0])
                        EXCEPT !.made = @ + b, !.left = @ - b, !.rest = Gap]
  BY DEF Emit
<1> DEFINE l == [frames |-> b, others |-> 0]
<1> DEFINE s == Sent(stream, l)
<1>2. b \in Nat /\ Burst \in Nat /\ Gap \in Nat
  BY PaceAssumption
<1>3. l \in LinesType /\ l.frames = b /\ l.others = 0
  BY <1>2 DEF LinesType
<1>4. stream \in StreamType
  BY DEF TypeOK
<1>5. /\ s \in StreamType /\ SameReading(stream, s)
      /\ s.made = stream.made /\ s.left = stream.left
      /\ front = "holds" => s.wire = stream.wire /\ s.held = Plus(stream.held, l)
      /\ front # "holds" => s.held = stream.held /\ s.wire = Plus(stream.wire, l)
  BY <1>3, <1>4, SentFields
<1>6. /\ Plus(stream.held, l).frames = stream.held.frames + b
      /\ Plus(stream.held, l).others = stream.held.others
      /\ Plus(stream.wire, l).frames = stream.wire.frames + b
      /\ Plus(stream.wire, l).others = stream.wire.others
  BY <1>3, Typed, PlusTyped
<1> HIDE DEF s, l
<1>7. stream' = [s EXCEPT !.made = @ + b, !.left = @ - b, !.rest = Gap]
  BY <1>1 DEF s, l
<1>8. /\ stream' \in StreamType
      /\ stream'.made = s.made + b /\ stream'.left = s.left - b /\ stream'.rest = Gap
      /\ stream'.wire = s.wire /\ stream'.held = s.held
      /\ SameReading(s, stream')
  <2>1. s.left \in Nat /\ b <= s.left /\ s.made \in Nat
    BY <1>1, <1>4, <1>5 DEF StreamType
  <2>2. s.left - b \in Nat /\ s.made + b \in Nat
    BY <1>2, <2>1
  <2> QED
    BY <1>2, <1>5, <1>7, <2>2 DEF StreamType, SameReading
<1> QED
  BY <1>2, <1>5, <1>6, <1>8, Typed DEF SameReading

LEMMA PingFields ==
    ASSUME TypeOK, Ping
    PROVE  /\ stream' \in StreamType /\ SameReading(stream, stream')
           /\ stream'.made = stream.made /\ stream'.left = stream.left /\ stream'.rest = stream.rest
           /\ stream'.wire.frames = stream.wire.frames /\ stream'.held.frames = stream.held.frames
           /\ front = "holds" => stream'.wire = stream.wire
           /\ front # "holds" => stream'.held = stream.held
<1> DEFINE l == [frames |-> 0, others |-> 1]
<1> DEFINE s == Sent(stream, l)
<1>1. stream' = [s EXCEPT !.pinged = TRUE]
  BY DEF Ping
<1>2. l \in LinesType /\ l.frames = 0
  BY DEF LinesType
<1>3. stream \in StreamType
  BY DEF TypeOK
<1>4. /\ Plus(stream.held, l).frames = stream.held.frames
      /\ Plus(stream.wire, l).frames = stream.wire.frames
  BY <1>2, Typed, PlusTyped
<1>5. /\ s \in StreamType /\ SameReading(stream, s)
      /\ s.made = stream.made /\ s.left = stream.left /\ s.rest = stream.rest
      /\ front = "holds" => s.wire = stream.wire /\ s.held = Plus(stream.held, l)
      /\ front # "holds" => s.held = stream.held /\ s.wire = Plus(stream.wire, l)
  BY <1>2, <1>3, SentFields
<1> HIDE DEF s, l
<1>6. /\ stream' \in StreamType
      /\ stream'.made = s.made /\ stream'.left = s.left /\ stream'.rest = s.rest
      /\ stream'.wire = s.wire /\ stream'.held = s.held
      /\ SameReading(s, stream')
  BY <1>1, <1>5 DEF StreamType, SameReading
<1> QED
  BY <1>4, <1>5, <1>6 DEF SameReading

LEMMA LastLineFields ==
    ASSUME TypeOK, LastLine
    PROVE  /\ stream' \in StreamType /\ SameReading(stream, stream')
           /\ stream'.made = stream.made /\ stream'.left = stream.left /\ stream'.rest = 0
           /\ stream'.held = NoLines
           /\ stream'.wire.frames = stream.wire.frames + stream.held.frames
<1>1. Plus(stream.wire, stream.held) \in LinesType
      /\ Plus(stream.wire, stream.held).frames = stream.wire.frames + stream.held.frames
  BY Typed, PlusTyped
<1>2. NoLines \in LinesType
  BY DEF NoLines, LinesType
<1>3. /\ stream' = [stream EXCEPT !.wire = Plus(stream.wire, stream.held), !.held = NoLines, !.rest = 0]
      /\ stream \in StreamType
  BY DEF LastLine, TypeOK
<1> QED
  BY <1>1, <1>2, <1>3 DEF StreamType, SameReading

LEMMA TickFields ==
    ASSUME TypeOK, Tick, pc = "stream"
    PROVE  /\ stream' \in StreamType
           /\ stream'.elapsed = stream.elapsed + 1
           /\ stream'.lines = stream.lines /\ stream'.frames = stream.frames
           /\ stream'.first = stream.first /\ stream'.last = stream.last
           /\ stream'.made = stream.made /\ stream'.left = stream.left
           /\ stream'.held = stream.held /\ stream'.wire = stream.wire
           /\ stream.rest <= stream'.rest + 1
<1> DEFINE rest == IF stream.rest = 0 THEN 0 ELSE stream.rest - 1
<1>1. stream' = [stream EXCEPT !.elapsed = stream.elapsed + 1, !.rest = rest, !.pinged = FALSE]
  BY DEF Tick
<1>2. stream \in StreamType /\ stream.elapsed + 1 \in Nat
  BY Typed DEF TypeOK
<1>3. rest \in Nat /\ stream.rest <= rest + 1
  BY Typed
<1> HIDE DEF rest
<1> QED
  BY <1>1, <1>2, <1>3 DEF StreamType

LEMMA BeginFields ==
    ASSUME TypeOK, Begin, pc = "stream"
    PROVE  /\ stream' \in StreamType /\ SameReading(stream, stream')
           /\ stream'.made = stream.made /\ stream'.left > 0 /\ stream'.rest = stream.rest
           /\ stream'.held = stream.held /\ stream'.wire = stream.wire
<1>1. PICK n \in 1..MaxReply : stream' = [stream EXCEPT !.left = n]
  BY DEF Begin
<1>2. n \in Nat /\ n > 0 /\ stream \in StreamType
  BY DoctorAssumption DEF TypeOK
<1> QED
  BY <1>1, <1>2 DEF StreamType, SameReading

\* Only the stop of a server that had the request touches its reply.
LEMMA StopFields ==
    ASSUME TypeOK, Stop, stage # "unsent"
    PROVE  /\ stream' \in StreamType /\ SameReading(stream, stream')
           /\ stream'.made = stream.made /\ stream'.left = 0 /\ stream'.rest = 0
           /\ stream'.pinged = stream.pinged
           /\ stream'.held = NoLines /\ stream'.wire = stream.wire
<1>1. stream' = [stream EXCEPT !.held = NoLines, !.left = 0, !.rest = 0]
  BY DEF Stop
<1>2. NoLines \in LinesType /\ stream \in StreamType
  BY DEF TypeOK, NoLines, LinesType
<1> QED
  BY <1>1, <1>2 DEF StreamType, SameReading

LEMMA CollectFields ==
    ASSUME TypeOK, NEW isFrame \in BOOLEAN, Collect(isFrame)
    PROVE  /\ stream' \in StreamType
           /\ stream'.elapsed = stream.elapsed /\ stream'.lines = stream.lines + 1
           /\ stream'.made = stream.made /\ stream'.left = stream.left /\ stream'.rest = stream.rest
           /\ stream'.held = stream.held
           /\ isFrame =>
                /\ stream.wire.frames > 0
                /\ stream'.wire.frames = stream.wire.frames - 1
                /\ stream'.wire.others = stream.wire.others
                /\ stream'.frames = stream.frames + 1
                /\ stream'.first = IF stream.frames = 0 THEN stream.elapsed ELSE stream.first
                /\ stream'.last = stream.elapsed
           /\ ~isFrame =>
                /\ stream.wire.others > 0
                /\ stream'.wire.frames = stream.wire.frames
                /\ stream'.wire.others = stream.wire.others - 1
                /\ stream'.frames = stream.frames
                /\ stream'.first = stream.first /\ stream'.last = stream.last
<1>1. stream \in StreamType /\ stream.wire \in LinesType
  BY Typed DEF TypeOK
<1>2. CASE isFrame
  <2>1. stream.wire.frames > 0 /\ stream.wire.frames - 1 \in Nat
    BY <1>2, Typed DEF Collect
  <2>2. stream' = [stream EXCEPT !.lines = stream.lines + 1,
                                 !.wire = [stream.wire EXCEPT !.frames = stream.wire.frames - 1],
                                 !.frames = stream.frames + 1,
                                 !.first = IF stream.frames = 0 THEN stream.elapsed ELSE stream.first,
                                 !.last = stream.elapsed]
    BY <1>1, <1>2 DEF Collect, Collected, StreamType
  <2>3. [stream.wire EXCEPT !.frames = stream.wire.frames - 1] \in LinesType
    BY <1>1, <2>1 DEF LinesType
  <2>4. /\ [stream.wire EXCEPT !.frames = stream.wire.frames - 1].frames = stream.wire.frames - 1
        /\ [stream.wire EXCEPT !.frames = stream.wire.frames - 1].others = stream.wire.others
    BY <1>1 DEF LinesType
  <2> DEFINE wire == [stream.wire EXCEPT !.frames = stream.wire.frames - 1]
             first == IF stream.frames = 0 THEN stream.elapsed ELSE stream.first
  <2>5. first \in Nat /\ stream.elapsed \in Nat /\ stream.lines + 1 \in Nat /\ stream.frames + 1 \in Nat
    BY Typed
  <2> HIDE DEF wire, first
  <2>6. stream' = [stream EXCEPT !.lines = stream.lines + 1, !.wire = wire, !.frames = stream.frames + 1,
                                 !.first = first, !.last = stream.elapsed]
    BY <2>2 DEF wire, first
  <2>7. /\ wire \in LinesType
        /\ wire.frames = stream.wire.frames - 1 /\ wire.others = stream.wire.others
    BY <2>3, <2>4 DEF wire
  <2>8. /\ stream' \in StreamType
        /\ stream'.elapsed = stream.elapsed /\ stream'.lines = stream.lines + 1
        /\ stream'.made = stream.made /\ stream'.left = stream.left /\ stream'.rest = stream.rest
        /\ stream'.held = stream.held /\ stream'.wire = wire
        /\ stream'.frames = stream.frames + 1 /\ stream'.first = first /\ stream'.last = stream.elapsed
    BY <1>1, <2>5, <2>6, <2>7 DEF StreamType
  <2> QED
    BY <1>2, <2>1, <2>7, <2>8 DEF first
<1>3. CASE ~isFrame
  <2>1. stream.wire.others > 0 /\ stream.wire.others - 1 \in Nat
    BY <1>3, Typed DEF Collect
  <2>2. stream' = [stream EXCEPT !.lines = stream.lines + 1,
                                 !.wire = [stream.wire EXCEPT !.others = stream.wire.others - 1]]
    BY <1>1, <1>3 DEF Collect, Collected, StreamType
  <2>3. [stream.wire EXCEPT !.others = stream.wire.others - 1] \in LinesType
    BY <1>1, <2>1 DEF LinesType
  <2>4. /\ [stream.wire EXCEPT !.others = stream.wire.others - 1].others = stream.wire.others - 1
        /\ [stream.wire EXCEPT !.others = stream.wire.others - 1].frames = stream.wire.frames
    BY <1>1 DEF LinesType
  <2> DEFINE wire == [stream.wire EXCEPT !.others = stream.wire.others - 1]
  <2>5. stream.lines + 1 \in Nat
    BY Typed
  <2> HIDE DEF wire
  <2>6. stream' = [stream EXCEPT !.lines = stream.lines + 1, !.wire = wire]
    BY <2>2 DEF wire
  <2>7. /\ wire \in LinesType
        /\ wire.frames = stream.wire.frames /\ wire.others = stream.wire.others - 1
    BY <2>3, <2>4 DEF wire
  <2>8. /\ stream' \in StreamType
        /\ stream'.elapsed = stream.elapsed /\ stream'.lines = stream.lines + 1
        /\ stream'.made = stream.made /\ stream'.left = stream.left /\ stream'.rest = stream.rest
        /\ stream'.held = stream.held /\ stream'.wire = wire
        /\ stream'.frames = stream.frames /\ stream'.first = stream.first /\ stream'.last = stream.last
    BY <1>1, <2>5, <2>6, <2>7 DEF StreamType
  <2> QED
    BY <1>3, <2>1, <2>7, <2>8
<1> QED
  BY <1>2, <1>3

-----------------------------------------------------------------------------
(* The kinds of steps, as far as a request is concerned.                   *)

\* The request that is on its way, if there is one, stays as it is.
Quiet ==
    /\ UNCHANGED <<args, front, stage, silent, stream>>
    /\ pc' = pc \/ (pc \notin {"stream", "done"} /\ pc' # "stream" /\ stage = "unsent")

\* It is over: the next check comes, and a stream is followed by none.
Answered ==
    /\ UNCHANGED <<args, front, stream>>
    /\ stage' = "unsent" /\ Generating
    /\ pc = "stream" => pc' = "done"
    /\ pc' \in {"tools", "stream", "done"}
    /\ pc' # "done" => silent' = 0

Queued ==
    /\ UNCHANGED <<args, front, pc, silent, stream>>
    /\ Generating /\ stage = "unsent" /\ stage' = "queued"

LEMMA ConcludesNext ==
    ASSUME NEW f, Concludes(f)
    PROVE  /\ stage' = "unsent" /\ silent' = 0 /\ Generating
           /\ pc = "stream" => pc' = "done"
           /\ pc' \in {"tools", "stream", "done"}
  BY DEF Concludes, Ends, Goes, Generating

LEMMA Kinds ==
    ASSUME TypeOK, Order, Next
    PROVE  \/ Quiet \/ Answered \/ Queued
           \/ Begin \/ Emit \/ Ping \/ LastLine \/ Tick
           \/ Stop
           \/ \E isFrame \in BOOLEAN : Collect(isFrame)
<1>0. pc \in {"health", "key", "context", "slots"} => stage = "unsent"
  BY DEF Order, Generating
<1>1. CASE CheckHealth
  BY <1>0, <1>1 DEF CheckHealth, Fails, Passes, Ends, Goes, Quiet
<1>2. CASE CheckKeyAndModel
  BY <1>0, <1>2 DEF CheckKeyAndModel, Fails, Passes, Ends, Goes, Quiet
<1>3. CASE CheckContext
  BY <1>0, <1>3 DEF CheckContext, Fails, Passes, Ends, Goes, Quiet
<1>4. CASE CheckSlots
  BY <1>0, <1>4 DEF CheckSlots, Ends, Goes, Quiet
<1>5. CASE Send
  <2>1. CASE stage' = "queued" /\ UNCHANGED <<pc, silent, finding, worst, exit>>
    BY <1>5, <2>1 DEF Send, Queued
  <2>2. CASE \E f : Concludes(f)
    BY <1>5, <2>2, ConcludesNext DEF Send, Answered
  <2> QED
    BY <1>5, <2>1, <2>2 DEF Send
<1>6. CASE Replied
  BY <1>6, ConcludesNext DEF Replied, Reply, Answered
<1>7. CASE TimeOut
  BY <1>7, ConcludesNext DEF TimeOut, Answered
<1>8. CASE Closed
  BY <1>8, ConcludesNext DEF Closed, Answered
<1>9. CASE CutShort
  BY <1>9 DEF CutShort, Answered, Goes, Generating
<1>10. CASE StreamEnds
  BY <1>10, ConcludesNext DEF StreamEnds, Answered
<1>11. CASE Launch \/ Loaded \/ Others
  BY <1>11 DEF Launch, Loaded, Others, Quiet
<1> QED
  BY <1>1, <1>2, <1>3, <1>4, <1>5, <1>6, <1>7, <1>8, <1>9, <1>10, <1>11 DEF Next, Doctor, Outside, Replied

-----------------------------------------------------------------------------
(* The parts of the invariant that are about the stream.                   *)

LEMMA EmptyStream ==
    ASSUME stream = NoStream
    PROVE  /\ stream.made = 0 /\ stream.elapsed = 0 /\ stream.lines = 0 /\ stream.frames = 0
           /\ stream.held = NoLines /\ stream.wire = NoLines
           /\ stream.wire.frames = 0 /\ stream.held.frames = 0
  BY DEF NoStream, NoLines

\* A server that stops changes nothing of a reply that does not stream.
LEMMA StopLeaves ==
    ASSUME TypeOK, Order, Stop
    PROVE  /\ UNCHANGED <<args, front, pc, silent>>
           /\ stage = "unsent" => stage' = "unsent" /\ stream' = stream
           /\ stage # "unsent" => stage' \in {"broken", "lost"} /\ Generating
           /\ stage \in {"unsent", "queued", "running"}
           /\ pc # "stream" => stream' = stream
<1>1. /\ UNCHANGED <<args, front, pc, silent>>
      /\ stage \in {"unsent", "queued", "running"} /\ pc # "done"
      /\ stage = "unsent" => stage' = "unsent" /\ stream' = stream
      /\ stage # "unsent" => /\ stage' \in {"broken", "lost"}
                             /\ stream' = [stream EXCEPT !.held = NoLines, !.left = 0, !.rest = 0]
  BY DEF Stop, Changed
<1>2. ASSUME pc # "stream"
      PROVE  stream' = stream
  <2>1. stream = NoStream
    BY <1>1, <1>2 DEF Order
  <2>2. [NoStream EXCEPT !.held = NoLines, !.left = 0, !.rest = 0] = NoStream
    <3>1. NoStream \in StreamType /\ NoStream.held = NoLines /\ NoStream.left = 0 /\ NoStream.rest = 0
      BY DEF NoStream, NoLines, StreamType, LinesType
    <3> QED
      BY <3>1 DEF StreamType
  <2> QED
    BY <1>1, <2>1, <2>2
<1> QED
  BY <1>1, <1>2 DEF Order

LEMMA BooksKept ==
    ASSUME TypeOK, Order, Books, Next
    PROVE  Books'
<1> USE DEF SameReading
<1>1. CASE Quiet
  BY <1>1 DEF Quiet, Books
<1>2. CASE Answered
  <2>1. CASE pc = "stream"
    BY <1>2, <2>1 DEF Answered, Books
  <2>2. CASE pc # "stream"
    <3>1. stream = NoStream
      BY <1>2, <2>2 DEF Answered, Generating, Order
    <3> QED
      BY <1>2, <3>1, EmptyStream, DoctorAssumption DEF Answered, Books
  <2> QED
    BY <2>1, <2>2
<1>3. CASE Queued
  <2>1. stream = NoStream
    BY <1>3 DEF Queued, Generating, Order
  <2> QED
    BY <1>3, <2>1, EmptyStream DEF Queued, Books
<1>4. CASE Begin
  <2>1. UNCHANGED <<front, pc>> /\ stage = "queued" /\ stage' = "running"
    BY <1>4 DEF Begin
  <2>2. CASE pc = "stream"
    <3>1. stream'.left \in Nat /\ stream'.left > 0
      BY <1>4, <2>2, BeginFields DEF StreamType
    <3> QED
      BY <1>4, <2>1, <2>2, <3>1, BeginFields, Typed DEF Books
  <2>3. CASE pc # "stream"
    BY <1>4, <2>1, <2>3 DEF Books, Begin
  <2> QED
    BY <2>2, <2>3
<1>5. CASE Emit
  <2>1. UNCHANGED <<front, pc, stage>> /\ pc = "stream" /\ stage = "running"
    BY <1>5 DEF Emit
  <2>2. PICK b \in 1..Burst :
             /\ stream' \in StreamType /\ SameReading(stream, stream')
             /\ stream'.made = stream.made + b
             /\ front = "holds" => /\ stream'.wire = stream.wire
                                   /\ stream'.held.frames = stream.held.frames + b
             /\ front # "holds" => /\ stream'.held = stream.held
                                   /\ stream'.wire.frames = stream.wire.frames + b
    BY <1>5, EmitFields
  <2>3. b \in Nat /\ b > 0 /\ stream'.left \in Nat
    BY <2>2, PaceAssumption DEF StreamType
  <2>4. stream'.frames + stream'.wire.frames + stream'.held.frames
            = stream.frames + stream.wire.frames + stream.held.frames + b
    BY <2>2, <2>3, Typed
  <2> QED
    BY <2>1, <2>2, <2>3, <2>4, Typed DEF Books
<1>6. CASE Ping
  <2>1. UNCHANGED <<front, pc, stage>>
    BY <1>6 DEF Ping
  <2> QED
    BY <1>6, <2>1, PingFields, Typed DEF Books
<1>7. CASE LastLine
  <2>1. UNCHANGED <<front, pc>> /\ pc = "stream" /\ stage = "running" /\ stage' = "ended" /\ stream.left = 0
    BY <1>7 DEF LastLine
  <2>2. stream'.held.frames = 0
    BY <1>7, LastLineFields DEF NoLines
  <2> QED
    BY <1>7, <2>1, <2>2, LastLineFields, Typed DEF Books
<1>8. CASE Tick
  <2>1. UNCHANGED <<front, pc, stage>> /\ (pc # "stream" => stream' = stream)
    BY <1>8 DEF Tick
  <2>2. CASE pc = "stream"
    BY <1>8, <2>1, <2>2, TickFields, Typed DEF Books
  <2>3. CASE pc # "stream"
    BY <2>1, <2>3 DEF Books
  <2> QED
    BY <2>2, <2>3
<1>9. CASE Stop
  <2>1. CASE stage = "unsent" \/ pc # "stream"
    BY <1>9, <2>1, StopLeaves DEF Books
  <2>2. CASE stage # "unsent" /\ pc = "stream"
    <3>1. stream'.held.frames = 0
      BY <1>9, <2>2, StopFields DEF NoLines
    <3> QED
      BY <1>9, <2>2, <3>1, StopLeaves, StopFields, Typed DEF Books
  <2> QED
    BY <2>1, <2>2
<1>10. ASSUME NEW isFrame \in BOOLEAN, Collect(isFrame)
       PROVE  Books'
  <2>1. pc = "stream" /\ front' = front
    BY <1>10 DEF Collect
  <2>2. CASE Keeps(stream'.lines, stream'.elapsed) /\ UNCHANGED <<pc, stage>>
    BY <1>10, <2>1, <2>2, CollectFields, Typed DEF Books, Keeps
  <2>3. CASE \E f : Concludes(f)
    <3>1. stage' = "unsent" /\ pc' = "done"
      BY <2>1, <2>3, ConcludesNext
    <3> QED
      BY <1>10, <2>1, <3>1, CollectFields, Typed DEF Books
  <2> QED
    BY <1>10, <2>2, <2>3 DEF Collect
<1> QED
  BY <1>1, <1>2, <1>3, <1>4, <1>5, <1>6, <1>7, <1>8, <1>9, <1>10, Kinds

LEMMA ClockKept ==
    ASSUME TypeOK, Order, Books, Clock, Next
    PROVE  Clock'
<1> USE DEF SameReading, NotForever
<1>0. MaxSeconds \in Nat /\ MaxSeconds > 0 /\ stream'.elapsed \in {stream'.elapsed}
  BY DoctorAssumption
<1>1. CASE Quiet
  BY <1>1 DEF Quiet, Clock
<1>2. CASE Answered
  <2>1. CASE pc = "stream"
    BY <1>2, <2>1 DEF Answered, Clock
  <2>2. CASE pc # "stream"
    <3>1. stream = NoStream
      BY <1>2, <2>2 DEF Answered, Generating, Order
    <3> QED
      BY <1>0, <1>2, <3>1, EmptyStream, Typed DEF Answered, Clock
  <2> QED
    BY <2>1, <2>2
<1>3. CASE Queued
  BY <1>3 DEF Queued, Clock
<1>4. CASE Begin
  <2>1. UNCHANGED <<args, pc, silent>> /\ (pc # "stream" => stream' = stream)
    BY <1>4 DEF Begin
  <2> QED
    BY <1>4, <2>1, BeginFields, Typed DEF Clock
<1>5. CASE Emit
  <2>1. UNCHANGED <<args, pc, silent>>
    BY <1>5 DEF Emit
  <2> QED
    BY <1>5, <2>1, EmitFields, Typed DEF Clock
<1>6. CASE Ping
  <2>1. UNCHANGED <<args, pc, silent>>
    BY <1>6 DEF Ping
  <2> QED
    BY <1>6, <2>1, PingFields, Typed DEF Clock
<1>7. CASE LastLine
  <2>1. UNCHANGED <<args, pc, silent>>
    BY <1>7 DEF LastLine
  <2> QED
    BY <1>7, <2>1, LastLineFields, Typed DEF Clock
<1>8. CASE Tick
  <2>1. UNCHANGED <<args, pc>> /\ silent' = silent + 1 /\ silent < args.timeout
        /\ (pc # "stream" => stream' = stream)
    BY <1>8 DEF Tick
  <2>2. CASE pc = "stream"
    BY <1>0, <1>8, <2>1, <2>2, TickFields, Typed DEF Clock
  <2>3. CASE pc # "stream"
    BY <2>1, <2>3 DEF Clock
  <2> QED
    BY <2>2, <2>3
<1>9. CASE Stop
  <2>1. CASE stage = "unsent"
    BY <1>9, <2>1, StopLeaves DEF Clock
  <2>2. CASE stage # "unsent"
    BY <1>9, <2>2, StopLeaves, StopFields, Typed DEF Clock
  <2> QED
    BY <2>1, <2>2
<1>10. ASSUME NEW isFrame \in BOOLEAN, Collect(isFrame)
       PROVE  Clock'
  <2>1. pc = "stream" /\ UNCHANGED <<args, front>>
    BY <1>10 DEF Collect
  <2>2. /\ stream'.lines = stream.lines + 1 /\ stream'.elapsed = stream.elapsed
        /\ stream'.elapsed \in Nat /\ stream'.lines > 0
    BY <1>10, CollectFields, Typed
  <2>3. NotForever'
    BY <2>1, <2>2 DEF Clock
  <2>4. CASE Keeps(stream'.lines, stream'.elapsed) /\ pc' = pc /\ silent' = 0
    BY <1>0, <2>2, <2>3, <2>4 DEF Clock, Keeps
  <2>5. CASE \E f : Concludes(f)
    <3>1. pc' = "done"
      BY <2>1, <2>5, ConcludesNext
    <3> QED
      BY <2>3, <3>1 DEF Clock
  <2> QED
    BY <1>10, <2>4, <2>5 DEF Collect
<1> QED
  BY <1>1, <1>2, <1>3, <1>4, <1>5, <1>6, <1>7, <1>8, <1>9, <1>10, Kinds

LEMMA PaceKept ==
    ASSUME TypeOK, Order, Books, Pace, Next
    PROVE  Pace'
<1> USE DEF SameReading
<1>0. Gap \in Nat /\ Gap > 0 /\ Burst \in Nat /\ Burst > 0
  BY PaceAssumption
<1>1. CASE Quiet
  BY <1>1 DEF Quiet, Pace
<1>2. CASE Answered
  BY <1>2 DEF Answered, Pace
<1>3. CASE Queued
  BY <1>3 DEF Queued, Pace
<1>4. CASE Begin
  <2>1. front' = front /\ stage = "queued" /\ stage' = "running" /\ (pc # "stream" => stream' = stream)
    BY <1>4 DEF Begin
  <2>2. stream.frames = 0 /\ stream.wire.frames = 0
    <3>1. stream.frames + stream.wire.frames + stream.held.frames <= 0
      BY <2>1 DEF Books
    <3> QED
      BY <3>1, Typed
  <2>3. SameReading(stream, stream') /\ stream'.wire = stream.wire
    BY <1>4, <2>1, BeginFields
  <2> QED
    BY <1>0, <2>1, <2>2, <2>3 DEF Pace
<1>5. CASE Emit
  <2>1. front' = front /\ stage' = stage /\ stage = "running" /\ stream.rest = 0
    BY <1>5 DEF Emit
  <2>2. PICK b \in 1..Burst :
             /\ SameReading(stream, stream') /\ stream'.rest = Gap
             /\ front # "holds" => stream'.wire.frames = stream.wire.frames + b
    BY <1>5, EmitFields
  <2>3. b \in Nat /\ b <= Burst
    BY <1>0
  <2>4. SUFFICES ASSUME front # "holds" PROVE Pace'
    BY <2>1 DEF Pace
  <2>5. stream.wire.frames = 0 /\ stream'.wire.frames = b
    BY <1>0, <2>1, <2>2, <2>3, <2>4, Typed DEF Pace
  <2>6. stream.frames > 0 => stream.first + Gap <= stream.elapsed
    BY <1>0, <2>1, <2>4, Typed DEF Pace
  <2>7. stream.frames > Burst => stream.first + Gap <= stream.last
    BY <2>4 DEF Pace
  <2> QED
    BY <1>0, <2>1, <2>2, <2>3, <2>5, <2>6, <2>7, Typed DEF Pace
<1>6. CASE Ping
  <2>1. UNCHANGED <<front, stage>>
    BY <1>6 DEF Ping
  <2> QED
    BY <1>6, <2>1, PingFields DEF Pace
<1>7. CASE LastLine
  <2>1. front' = front /\ stage' = "ended"
    BY <1>7 DEF LastLine
  <2>2. front # "holds" => stream'.wire.frames = stream.wire.frames
    BY <1>7, LastLineFields, Typed DEF Books, NoLines
  <2> QED
    BY <1>7, <2>1, <2>2, LastLineFields DEF Pace
<1>8. CASE Tick
  <2>1. UNCHANGED <<front, stage>> /\ stream.wire = NoLines /\ (pc # "stream" => stream' = stream)
    BY <1>8 DEF Tick
  <2>2. CASE pc = "stream"
    <3>1. stream.wire.frames = 0 /\ stream'.wire.frames = 0 /\ stream'.rest \in Nat
      BY <1>8, <2>1, <2>2, TickFields DEF NoLines, StreamType
    <3> QED
      BY <1>0, <1>8, <2>1, <2>2, <3>1, TickFields, Typed DEF Pace
  <2>3. CASE pc # "stream"
    BY <2>1, <2>3 DEF Pace
  <2> QED
    BY <2>2, <2>3
<1>9. CASE Stop
  <2>1. CASE stage = "unsent"
    BY <1>9, <2>1, StopLeaves DEF Pace
  <2>2. CASE stage # "unsent"
    BY <1>9, <2>2, StopLeaves, StopFields DEF Pace
  <2> QED
    BY <2>1, <2>2
<1>10. ASSUME NEW isFrame \in BOOLEAN, Collect(isFrame)
       PROVE  Pace'
  <2>1. pc = "stream" /\ front' = front /\ stage' \in {stage, "unsent"}
    BY <1>10, ConcludesNext DEF Collect
  <2>2. CASE ~isFrame
    BY <1>10, <2>1, <2>2, CollectFields DEF Pace
  <2>3. CASE isFrame
    <3>1. /\ stream.wire.frames > 0 /\ stream'.wire.frames = stream.wire.frames - 1
          /\ stream'.frames = stream.frames + 1 /\ stream'.rest = stream.rest
          /\ stream'.elapsed = stream.elapsed /\ stream'.last = stream.elapsed
          /\ stream.frames = 0 => stream'.first = stream.elapsed
          /\ stream.frames # 0 => stream'.first = stream.first
      BY <1>10, <2>3, CollectFields
    <3>2. CASE stream.frames = 0
      BY <1>0, <2>1, <3>1, <3>2, Typed DEF Pace
    <3>3. CASE stream.frames # 0
      BY <1>0, <2>1, <3>1, <3>3, Typed DEF Pace
    <3> QED
      BY <3>2, <3>3
  <2> QED
    BY <2>2, <2>3
<1> QED
  BY <1>1, <1>2, <1>3, <1>4, <1>5, <1>6, <1>7, <1>8, <1>9, <1>10, Kinds

LEMMA WithheldKept ==
    ASSUME TypeOK, Order, Books, Clock, Withheld, Next
    PROVE  Withheld'
<1> USE DEF SameReading
<1>1. CASE Quiet
  BY <1>1 DEF Quiet, Withheld
<1>2. CASE Answered
  <2>1. CASE pc = "stream"
    BY <1>2, <2>1 DEF Answered, Withheld
  <2>2. CASE pc # "stream"
    <3>1. stream = NoStream
      BY <1>2, <2>2 DEF Answered, Generating, Order
    <3> QED
      BY <1>2, <3>1, EmptyStream DEF Answered, Withheld
  <2> QED
    BY <2>1, <2>2
<1>3. CASE Queued
  BY <1>3 DEF Queued, Withheld
<1>4. CASE Begin
  <2>1. UNCHANGED <<args, front, pc>> /\ stage = "queued" /\ stage' = "running"
    BY <1>4 DEF Begin
  <2> QED
    BY <1>4, <2>1, BeginFields DEF Withheld
<1>5. CASE Emit
  <2>1. UNCHANGED <<args, front, pc, stage>> /\ stage = "running"
    BY <1>5 DEF Emit
  <2> QED
    BY <1>5, <2>1, EmitFields DEF Withheld
<1>6. CASE Ping
  <2>1. UNCHANGED <<args, front, pc, stage>> /\ stage \in {"queued", "running"}
    BY <1>6 DEF Ping
  <2> QED
    BY <1>6, <2>1, PingFields DEF Withheld
<1>7. CASE LastLine
  <2>1. UNCHANGED <<args, front, pc>> /\ pc = "stream" /\ stage = "running" /\ stage' = "ended"
    BY <1>7 DEF LastLine
  <2>2. SUFFICES ASSUME front = "holds" PROVE Withheld'
    BY <2>1 DEF Withheld
  <2>3. stream.lines = 0
    BY <2>1, <2>2 DEF Withheld
  <2>4. stream.frames = 0 /\ stream.elapsed = silent
    BY <2>1, <2>3, Typed DEF Books, Clock
  <2>5. silent <= args.timeout
    BY Typed DEF TypeOK
  <2> QED
    BY <1>7, <2>1, <2>4, <2>5, LastLineFields DEF Withheld
<1>8. CASE Tick
  <2>1. UNCHANGED <<args, front, pc, stage>> /\ stage # "ended" /\ (pc # "stream" => stream' = stream)
    BY <1>8 DEF Tick
  <2> QED
    BY <1>8, <2>1, TickFields DEF Withheld
<1>9. CASE Stop
  <2>1. CASE stage = "unsent"
    BY <1>9, <2>1, StopLeaves DEF Withheld
  <2>2. CASE stage # "unsent"
    BY <1>9, <2>2, StopLeaves, StopFields DEF Withheld
  <2> QED
    BY <2>1, <2>2
<1>10. ASSUME NEW isFrame \in BOOLEAN, Collect(isFrame)
       PROVE  Withheld'
  <2>1. pc = "stream" /\ UNCHANGED <<args, front>>
    BY <1>10 DEF Collect
  <2>2. SUFFICES ASSUME front = "holds" PROVE Withheld'
    BY <2>1 DEF Withheld
  <2>3. stage = "ended"
    BY <1>10, <2>1, <2>2 DEF Withheld, Collect, NoLines
  <2>4. /\ stream'.held = NoLines /\ stream'.elapsed <= args.timeout
        /\ stream'.frames > 0 => stream'.first = stream'.elapsed /\ stream'.last = stream'.elapsed
    <3>1. /\ stream.held = NoLines /\ stream.elapsed <= args.timeout
          /\ stream.frames > 0 => stream.first = stream.elapsed /\ stream.last = stream.elapsed
      BY <2>2, <2>3 DEF Withheld
    <3>2. stream.frames \in Nat
      BY Typed
    <3> QED
      BY <1>10, <3>1, <3>2, CollectFields
  <2>5. pc' = "stream" => stage' = "ended"
    BY <1>10, <2>1, <2>3, ConcludesNext DEF Collect
  <2> QED
    BY <2>1, <2>4, <2>5 DEF Withheld
<1> QED
  BY <1>1, <1>2, <1>3, <1>4, <1>5, <1>6, <1>7, <1>8, <1>9, <1>10, Kinds

-----------------------------------------------------------------------------
(* Types, and the order of the requests.                                   *)

\* What a check has said, and what comes of it
VerdictOK ==
    /\ pc \in Checks \union {"done"}
    /\ finding.check \in Checks \union {"none"} /\ finding.outcome \in Found(finding.check)
    /\ worst \in BOOLEAN
    /\ exit \in {"running", "passed", "failed", "raised"}

LEMMA FindingFields ==
    ASSUME NEW c, NEW f, Says(c, f)
    PROVE  finding'.check = c /\ finding'.outcome = f
  BY DEF Says, Finding

LEMMA PassesTyped ==
    ASSUME VerdictOK, NEW c \in Checks, NEW f \in Found(c), NEW next \in Checks, Passes(c, f, next)
    PROVE  VerdictOK'
<1>1. finding'.check = c /\ finding'.outcome = f /\ pc' = next /\ UNCHANGED <<worst, exit>>
  BY FindingFields DEF Passes
<1> QED
  BY <1>1 DEF VerdictOK

LEMMA FailsTyped ==
    ASSUME VerdictOK, NEW c \in Checks, NEW f \in Found(c), Fails(c, f)
    PROVE  VerdictOK'
<1>1. finding'.check = c /\ finding'.outcome = f /\ worst' = TRUE /\ pc' = "done" /\ exit' \in {"passed", "failed"}
  BY FindingFields DEF Fails, Ends, Goes
<1> QED
  BY <1>1 DEF VerdictOK

LEMMA ConcludesTyped ==
    ASSUME VerdictOK, NEW f \in Found(pc), Concludes(f)
    PROVE  VerdictOK'
<1>1. finding'.check = pc /\ finding'.outcome = f /\ worst' \in BOOLEAN /\ pc \in Checks
  BY FindingFields DEF Concludes, Worse, VerdictOK, Checks
<1>2. pc' \in {"tools", "stream", "done"} /\ exit' \in {exit, "passed", "failed"}
  BY DEF Concludes, Ends, Goes
<1> QED
  BY <1>1, <1>2 DEF VerdictOK, Checks

\* What a request may be found to be
LEMMA EndsFound ==
    ASSUME TypeOK, Generating
    PROVE  /\ \A a \in Refusals \union ClosedAnswers : Generated(a) \in Found(pc)
           /\ pc = "stream" => \A s : Judged(s) \in Found(pc)
           /\ pc # "stream" => \A a \in Replies : Generated(a) \in Found(pc)
           /\ "UNREACHABLE" \in Found(pc)
<1>1. /\ Found("completion") = Found("tools")
      /\ {"OK", "UNREACHABLE", "LOADING", "UNAUTHORISED", "BAD_ENDPOINT", "NOT_ENABLED",
          "SERVER_ERROR", "TOOLS_IGNORED", "TOOLS_MALFORMED"} \subseteq Found("tools")
      /\ {"OK", "UNREACHABLE", "LOADING", "UNAUTHORISED", "BAD_ENDPOINT",
          "SERVER_ERROR", "STREAM_UNSUPPORTED", "STREAM_BUFFERED"} \subseteq Found("stream")
  BY DEF Found
<1>2. pc \in {"completion", "tools", "stream"}
  BY DEF Generating
<1>3. \A a \in Refusals \union ClosedAnswers : Generated(a) \in Found(pc)
  BY <1>1, <1>2, RefusedFound, ClosedFound
<1>4. pc = "stream" => \A s : Judged(s) \in Found(pc)
  BY <1>1, JudgedFound
<1>5. pc # "stream" => \A a \in Replies : Generated(a) \in Found(pc)
  BY <1>1, <1>2, ReplyFound
<1> QED
  BY <1>1, <1>2, <1>3, <1>4, <1>5

LEMMA VerdictKept ==
    ASSUME TypeOK, Order, Next
    PROVE  VerdictOK'
<1>0. VerdictOK
  BY DEF TypeOK, VerdictOK
<1>1. CASE CheckHealth
  <2>1. PICK a \in Health : \/ Fails("health", Diagnose(a))
                            \/ Diagnose(a) = "OK" /\ Passes("health", "OK", "key")
    BY <1>1 DEF CheckHealth
  <2>2. Diagnose(a) \in Found("health") /\ "OK" \in Found("health")
    BY HealthFound DEF Found
  <2>3. {"health", "key"} \subseteq Checks
    BY DEF Checks
  <2> QED
    BY <1>0, <2>1, <2>2, <2>3, FailsTyped, PassesTyped
<1>2. CASE CheckKeyAndModel
  <2>1. PICK a \in Keyed(Answer(200, "models")) :
             \/ Fails("key", Diagnose(a))
             \/ Fails("model", Visibility(a))
             \/ Visibility(a) = "OK" /\ Passes("model", "OK", "context")
    BY <1>2 DEF CheckKeyAndModel
  <2>2. Diagnose(a) \in Found("key") /\ Visibility(a) \in Found("model") /\ "OK" \in Found("model")
    BY KeyFound DEF Found
  <2>3. {"key", "model", "context"} \subseteq Checks
    BY DEF Checks
  <2> QED
    BY <1>0, <2>1, <2>2, <2>3, FailsTyped, PassesTyped
<1>3. CASE CheckContext
  <2>1. \/ Passes("context", "unknown", "slots") \/ Fails("context", "too much")
        \/ Passes("context", "OK", "slots")
    BY <1>3 DEF CheckContext
  <2>2. {"OK", "unknown", "too much"} \subseteq Found("context") /\ {"context", "slots"} \subseteq Checks
    BY DEF Checks, Found
  <2> QED
    BY <1>0, <2>1, <2>2, FailsTyped, PassesTyped
<1>4. CASE CheckSlots
  <2>1. \E f \in {"free", "busy", "unknown"} : Says("slots", f)
    BY <1>4 DEF CheckSlots
  <2>2. finding'.check = "slots" /\ finding'.outcome \in Found("slots")
    BY <2>1, FindingFields DEF Found
  <2>3. worst' = worst /\ pc' \in {"completion", "done"} /\ exit' \in {exit, "passed", "failed"}
    BY <1>4 DEF CheckSlots, Ends, Goes
  <2> QED
    BY <1>0, <2>2, <2>3 DEF VerdictOK, Checks
<1>5. CASE Send
  <2>1. CASE UNCHANGED <<pc, finding, worst, exit>>
    BY <1>0, <2>1 DEF VerdictOK
  <2>2. CASE \E a \in Refusals :
               Concludes(IF pc = "stream" /\ Diagnose(a) = "OK" THEN Judged(stream) ELSE Generated(a))
    BY <1>0, <1>5, <2>2, EndsFound, ConcludesTyped DEF Send
  <2> QED
    BY <1>5, <2>1, <2>2 DEF Send
<1>6. CASE Replied
  <2>1. PICK a \in Replies : Concludes(Generated(a)) /\ pc # "stream" /\ Generating
    BY <1>6 DEF Replied, Reply, Generating
  <2> QED
    BY <1>0, <2>1, EndsFound, ConcludesTyped
<1>7. CASE TimeOut
  <2>1. Concludes("UNREACHABLE")
    BY <1>7, Diagnoses DEF TimeOut
  <2> QED
    BY <1>0, <2>1, EndsFound, ConcludesTyped, ConcludesNext
<1>8. CASE Closed
  <2>1. PICK a \in ClosedAnswers :
          Concludes(IF pc = "stream" /\ Diagnose(a) = "OK" THEN Judged(stream) ELSE Generated(a))
    BY <1>8 DEF Closed, ClosedAnswers
  <2>2. Generating
    BY <2>1, ConcludesNext
  <2> QED
    BY <1>0, <2>1, <2>2, EndsFound, ConcludesTyped
<1>9. CASE CutShort
  BY <1>0, <1>9 DEF CutShort, Goes, VerdictOK
<1>10. CASE StreamEnds
  <2>1. pc = "stream" /\ (Concludes(Judged(stream)) \/ Concludes("UNREACHABLE"))
    BY <1>10, Diagnoses DEF StreamEnds
  <2> QED
    BY <1>0, <2>1, EndsFound, ConcludesTyped DEF Generating
<1>11. ASSUME NEW isFrame \in BOOLEAN, Collect(isFrame)
       PROVE  VerdictOK'
  <2>1. pc = "stream" /\ (UNCHANGED <<pc, finding, worst, exit>> \/ Concludes(Judged(stream')))
    BY <1>11 DEF Collect
  <2>2. Judged(stream') \in Found("stream")
    BY <2>1, EndsFound DEF Generating
  <2> QED
    BY <1>0, <2>1, <2>2, ConcludesTyped DEF VerdictOK
<1>12. CASE Begin \/ Emit \/ Ping \/ LastLine \/ Stop \/ Launch \/ Loaded \/ Others \/ Tick
  <2>1. UNCHANGED <<pc, finding, worst, exit>>
    BY <1>12 DEF Begin, Emit, Ping, LastLine, Stop, Launch, Loaded, Others, Tick
  <2> QED
    BY <1>0, <2>1 DEF VerdictOK
<1> QED
  BY <1>1, <1>2, <1>3, <1>4, <1>5, <1>6, <1>7, <1>8, <1>9, <1>10, <1>11, <1>12 DEF Next, Doctor, Outside, Replied

LEMMA ServerTyped ==
    ASSUME TypeOK, Next
    PROVE  /\ state' \in {"down", "loading", "up"} /\ config' \in Configs /\ free' \in BOOLEAN
           /\ changes' \in 0..MaxChanges
<1> USE DEF TypeOK, server
<1>0. MaxChanges \in Nat
  BY DoctorAssumption
<1>1. CASE CheckHealth \/ CheckKeyAndModel \/ CheckContext \/ CheckSlots \/ Send \/ Closed
           \/ CutShort \/ StreamEnds
  BY <1>1 DEF CheckHealth, CheckKeyAndModel, CheckContext, CheckSlots, Send, Closed, CutShort, StreamEnds
<1>2. CASE Replied \/ TimeOut \/ LastLine \/ \E isFrame \in BOOLEAN : Collect(isFrame)
  BY <1>2 DEF Replied, Reply, TimeOut, LastLine, Collect, SlotReturned
<1>3. CASE Begin \/ Emit \/ Ping \/ Tick \/ Others
  BY <1>3 DEF Begin, Emit, Ping, Tick, Others
<1>4. CASE Stop \/ Launch \/ Loaded
  <2>1. changes' = changes + 1 /\ changes < MaxChanges
    BY <1>4 DEF Stop, Launch, Loaded, Changed
  <2>2. changes' \in 0..MaxChanges
    BY <1>0, <2>1
  <2>3. state' \in {"down", "loading", "up"} /\ config' \in Configs /\ (free' = TRUE \/ free' = free)
    BY <1>4 DEF Stop, Launch, Loaded
  <2> QED
    BY <2>2, <2>3
<1> QED
  BY <1>1, <1>2, <1>3, <1>4 DEF Next, Doctor, Outside, Replied

\* The part of the type that is about the request
RequestOK ==
    /\ stage \in {"unsent", "queued", "running", "ended", "broken", "lost"}
    /\ silent \in 0..args.timeout
    /\ stream \in StreamType
    /\ stream.lines <= MaxLines /\ stream.frames <= stream.made
    /\ stream.first <= stream.last /\ stream.last <= stream.elapsed

LEMMA RequestKept ==
    ASSUME TypeOK, Order, Books, Next
    PROVE  RequestOK' /\ args' = args /\ front' = front
<1> USE DEF SameReading
<1>0. RequestOK /\ MaxLines \in Nat /\ args.timeout \in Nat
  BY DoctorAssumption DEF TypeOK, RequestOK
<1>1. CASE Quiet
  BY <1>0, <1>1 DEF Quiet, RequestOK
<1>2. CASE Answered
  <2>1. silent' \in 0..args.timeout
    <3>1. CASE CutShort
      BY <1>0, <3>1 DEF CutShort, RequestOK
    <3>2. CASE silent' = 0
      BY <1>0, <3>2
    <3>3. CASE \E f : Concludes(f)
      BY <3>3, <3>2, ConcludesNext
    <3>4. Send => UNCHANGED silent \/ \E f : Concludes(f)
      BY DEF Send
    <3>5. Replied \/ TimeOut \/ Closed \/ StreamEnds => \E f : Concludes(f)
      BY DEF Replied, Reply, TimeOut, Closed, StreamEnds
    <3>6. CASE UNCHANGED silent
      BY <1>0, <3>6 DEF RequestOK
    <3>7. CheckHealth \/ CheckKeyAndModel \/ CheckContext \/ CheckSlots => UNCHANGED silent
      BY DEF CheckHealth, CheckKeyAndModel, CheckContext, CheckSlots
    <3>8. Begin \/ Emit \/ Ping \/ LastLine \/ Stop \/ Launch \/ Loaded \/ Others => UNCHANGED silent
      BY DEF Begin, Emit, Ping, LastLine, Stop, Launch, Loaded, Others
    <3>9. Tick => silent' = silent + 1 /\ silent < args.timeout
      BY DEF Tick
    <3>10. \A isFrame \in BOOLEAN : Collect(isFrame) => silent' = 0 \/ \E f : Concludes(f)
      BY DEF Collect
    <3> QED
      BY <1>0, <3>1, <3>2, <3>3, <3>4, <3>5, <3>6, <3>7, <3>8, <3>9, <3>10
         DEF Next, Doctor, Outside, Replied, RequestOK
  <2> QED
    BY <1>0, <1>2, <2>1 DEF Answered, RequestOK
<1>3. CASE Queued
  BY <1>0, <1>3 DEF Queued, RequestOK
<1>4. CASE Begin
  <2>1. UNCHANGED <<args, front, silent>> /\ stage' = "running" /\ (pc # "stream" => stream' = stream)
    BY <1>4 DEF Begin
  <2> QED
    BY <1>0, <1>4, <2>1, BeginFields DEF RequestOK
<1>5. CASE Emit
  <2>1. UNCHANGED <<args, front, silent, stage>>
    BY <1>5 DEF Emit
  <2>2. stream' \in StreamType /\ SameReading(stream, stream')
        /\ stream.made <= stream'.made
    <3>1. PICK b \in 1..Burst : stream' \in StreamType /\ SameReading(stream, stream') /\ stream'.made = stream.made + b
      BY <1>5, EmitFields
    <3> QED
      BY <3>1, Typed, PaceAssumption
  <2> QED
    BY <1>0, <2>1, <2>2, Typed DEF RequestOK, StreamType
<1>6. CASE Ping
  <2>1. UNCHANGED <<args, front, silent, stage>>
    BY <1>6 DEF Ping
  <2> QED
    BY <1>0, <1>6, <2>1, PingFields DEF RequestOK
<1>7. CASE LastLine
  <2>1. UNCHANGED <<args, front, silent>> /\ stage' = "ended"
    BY <1>7 DEF LastLine
  <2> QED
    BY <1>0, <1>7, <2>1, LastLineFields DEF RequestOK
<1>8. CASE Tick
  <2>1. UNCHANGED <<args, front, stage>> /\ silent' = silent + 1 /\ silent < args.timeout
        /\ (pc # "stream" => stream' = stream)
    BY <1>8 DEF Tick
  <2>2. silent' \in 0..args.timeout
    BY <1>0, <2>1, Typed
  <2>3. CASE pc = "stream"
    BY <1>0, <1>8, <2>1, <2>2, <2>3, TickFields, Typed DEF RequestOK
  <2>4. CASE pc # "stream"
    BY <1>0, <2>1, <2>2, <2>4 DEF RequestOK
  <2> QED
    BY <2>3, <2>4
<1>9. CASE Stop
  <2>1. CASE stage = "unsent"
    BY <1>0, <1>9, <2>1, StopLeaves DEF RequestOK
  <2>2. CASE stage # "unsent"
    BY <1>0, <1>9, <2>2, StopLeaves, StopFields DEF RequestOK
  <2> QED
    BY <2>1, <2>2
<1>10. ASSUME NEW isFrame \in BOOLEAN, Collect(isFrame)
       PROVE  RequestOK' /\ args' = args /\ front' = front
  <2>1. UNCHANGED <<args, front>> /\ silent' = 0 /\ stage' \in {stage, "unsent"}
    BY <1>10, ConcludesNext DEF Collect
  <2>2. stream.lines < MaxLines
    BY <1>10 DEF Collect, Books
  <2>3. stream.frames + stream.wire.frames <= stream.made
    BY Typed DEF Books
  <2>4. stream' \in StreamType /\ stream'.lines <= MaxLines
    BY <1>0, <1>10, <2>2, CollectFields, Typed
  <2>5. stream'.frames <= stream'.made
    <3>1. CASE isFrame
      <4>1. /\ stream.wire.frames > 0 /\ stream'.frames = stream.frames + 1
            /\ stream'.made = stream.made
        BY <1>10, <3>1, CollectFields
      <4> QED
        BY <2>3, <4>1, Typed
    <3>2. CASE ~isFrame
      BY <1>0, <1>10, <3>2, CollectFields DEF RequestOK
    <3> QED
      BY <3>1, <3>2
  <2>6. stream'.first <= stream'.last /\ stream'.last <= stream'.elapsed
    <3>1. CASE isFrame
      <4>1. /\ stream'.first = IF stream.frames = 0 THEN stream.elapsed ELSE stream.first
            /\ stream'.last = stream.elapsed /\ stream'.elapsed = stream.elapsed
        BY <1>10, <3>1, CollectFields
      <4> QED
        BY <1>0, <4>1, Typed DEF RequestOK
    <3>2. CASE ~isFrame
      BY <1>0, <1>10, <3>2, CollectFields DEF RequestOK
    <3> QED
      BY <3>1, <3>2
  <2> QED
    BY <1>0, <2>1, <2>4, <2>5, <2>6 DEF RequestOK
<1> QED
  BY <1>1, <1>2, <1>3, <1>4, <1>5, <1>6, <1>7, <1>8, <1>9, <1>10, Kinds

LEMMA TypesKept ==
    ASSUME TypeOK, Order, Books, Next
    PROVE  TypeOK'
<1>1. VerdictOK'
  BY VerdictKept
<1>2. RequestOK' /\ args' = args /\ front' = front
  BY RequestKept
<1>3. /\ state' \in {"down", "loading", "up"} /\ config' \in Configs /\ free' \in BOOLEAN
      /\ changes' \in 0..MaxChanges
  BY ServerTyped
<1>4. args \in Requests /\ front \in Fronts
  BY DEF TypeOK
<1> QED
  BY <1>1, <1>2, <1>3, <1>4 DEF TypeOK, VerdictOK, RequestOK

LEMMA OrderKept ==
    ASSUME TypeOK, Order, Next
    PROVE  Order'
<1>0. TypeOK /\ Order /\ (stage # "unsent" => pc # "done")
  BY DEF Order, Generating
<1>1. CASE CheckHealth \/ CheckKeyAndModel \/ CheckContext
  <2>1. /\ pc \in {"health", "key", "context"} /\ UNCHANGED <<stage, silent, stream>>
        /\ finding'.check \in {"health", "key", "model", "context"}
        /\ \/ pc' \in {"key", "context", "slots"} /\ UNCHANGED <<worst, exit>>
           \/ pc' = "done"
    <3>1. CASE CheckHealth
      <4>1. (\E f : Fails("health", f)) \/ Passes("health", "OK", "key")
        BY <3>1 DEF CheckHealth
      <4> QED
        BY <3>1, <4>1, FindingFields DEF CheckHealth, Fails, Passes, Ends, Goes
    <3>2. CASE CheckKeyAndModel
      <4>1. (\E f : Fails("key", f)) \/ (\E f : Fails("model", f)) \/ Passes("model", "OK", "context")
        BY <3>2 DEF CheckKeyAndModel
      <4> QED
        BY <3>2, <4>1, FindingFields DEF CheckKeyAndModel, Fails, Passes, Ends, Goes
    <3>3. CASE CheckContext
      <4>1. (\E f : Fails("context", f)) \/ (\E f : Passes("context", f, "slots"))
        BY <3>3 DEF CheckContext
      <4> QED
        BY <3>3, <4>1, FindingFields DEF CheckContext, Fails, Passes, Ends, Goes
    <3> QED
      BY <1>1, <3>1, <3>2, <3>3
  <2>2. stage = "unsent" /\ stream = NoStream /\ silent = 0 /\ ~worst /\ exit = "running"
    BY <1>0, <2>1 DEF Order, Generating
  <2> QED
    BY <2>1, <2>2 DEF Order, Generating
<1>2. CASE CheckSlots
  <2>1. /\ pc = "slots" /\ UNCHANGED <<stage, silent, stream, worst>>
        /\ \/ pc' = "completion" /\ UNCHANGED exit
           \/ pc' = "done"
    BY <1>2 DEF CheckSlots, Ends, Goes
  <2>2. finding'.check = "slots"
    <3>1. \E f : Says("slots", f)
      BY <1>2 DEF CheckSlots
    <3> QED
      BY <3>1, FindingFields
  <2>3. stage = "unsent" /\ stream = NoStream /\ silent = 0 /\ ~worst /\ exit = "running"
    BY <1>0, <2>1 DEF Order, Generating
  <2> QED
    BY <2>1, <2>2, <2>3 DEF Order, Generating
<1>3. ASSUME NEW f, Concludes(f), stream' = stream \/ pc = "stream"
      PROVE  Order'
  <2>1. finding'.check = pc /\ stage' = "unsent" /\ silent' = 0 /\ Generating
    BY <1>3, FindingFields, ConcludesNext DEF Concludes
  <2>2. \/ pc = "completion" /\ pc' = "tools" /\ f = "OK" /\ worst' = Worse(f) /\ UNCHANGED exit
        \/ pc = "tools" /\ pc' = "stream" /\ UNCHANGED exit
        \/ pc' = "done"
    BY <1>3 DEF Concludes, Ends, Goes
  <2>3. pc \in {"completion", "tools"} => stream' = NoStream /\ exit = "running"
    BY <1>0, <1>3 DEF Order
  <2>4. pc = "completion" => ~worst
    BY <1>0 DEF Order
  <2> QED
    BY <2>1, <2>2, <2>3, <2>4 DEF Order, Generating, Worse
<1>4. CASE Send
  <2>1. CASE UNCHANGED <<pc, silent, finding, worst, exit>> /\ stage' = "queued" /\ Generating /\ stage = "unsent"
    BY <1>0, <1>4, <2>1 DEF Send, Order, Generating
  <2>2. CASE \E f : Concludes(f)
    BY <1>3, <1>4, <2>2 DEF Send
  <2> QED
    BY <1>4, <2>1, <2>2 DEF Send
<1>5. CASE Replied \/ TimeOut \/ Closed \/ StreamEnds
  BY <1>3, <1>5 DEF Replied, Reply, TimeOut, Closed, StreamEnds
<1>6. CASE CutShort
  BY <1>0, <1>6 DEF CutShort, Goes, Order, Generating
<1>7. ASSUME NEW isFrame \in BOOLEAN, Collect(isFrame)
      PROVE  Order'
  <2>1. CASE UNCHANGED <<pc, stage, finding, worst, exit>> /\ silent' = 0
    <3>1. pc = "stream"
      BY <1>7 DEF Collect
    <3>2. stage # "unsent"
      <4>1. stream.wire.frames > 0 \/ stream.wire.others > 0
        BY <1>7 DEF Collect
      <4>2. NoStream.wire.frames = 0 /\ NoStream.wire.others = 0
        BY DEF NoStream, NoLines
      <4> QED
        BY <1>0, <3>1, <4>1, <4>2 DEF Order
    <3> QED
      BY <1>0, <2>1, <3>1, <3>2 DEF Order, Generating
  <2>2. CASE \E f : Concludes(f)
    <3>1. pc = "stream"
      BY <1>7 DEF Collect
    <3> QED
      BY <1>3, <2>2, <3>1
  <2> QED
    BY <1>7, <2>1, <2>2 DEF Collect
<1>8. CASE Begin \/ Emit \/ Ping \/ LastLine \/ Tick
  <2>1. UNCHANGED <<pc, finding, worst, exit>> /\ stage # "unsent"
        /\ stage' # "unsent" /\ (stage' = "ended" => stage = "ended" \/ pc = "stream")
        /\ (pc # "stream" => stream' = stream)
    BY <1>8 DEF Begin, Emit, Ping, LastLine, Tick
  <2> QED
    BY <1>0, <2>1 DEF Order, Generating
<1>9. CASE Stop
  <2>1. UNCHANGED <<finding, worst, exit>>
    BY <1>9 DEF Stop
  <2> QED
    BY <1>0, <1>9, <2>1, StopLeaves DEF Order, Generating
<1>10. CASE Launch \/ Loaded \/ Others
  <2>1. UNCHANGED <<pc, stage, silent, stream, finding, worst, exit>>
    BY <1>10 DEF Launch, Loaded, Others
  <2> QED
    BY <1>0, <2>1 DEF Order, Generating
<1> QED
  BY <1>1, <1>2, <1>4, <1>5, <1>6, <1>7, <1>8, <1>9, <1>10 DEF Next, Doctor, Outside, Replied

-----------------------------------------------------------------------------
(* What a check that passed has shown.                                     *)

\* Unready answers mean that the server, or the way to it, is not as it should
\* be.
LEMMA ReadyMeans ==
    ASSUME TypeOK
    PROVE  Ready <=> front # "page" /\ state = "up"
<1>1. state \in {"down", "loading", "up"}
  BY DEF TypeOK
<1> QED
  BY <1>1 DEF Ready, Unready, ErrorPages

\* The list of models passes only if it came from llama-server, for the key of
\* this laptop, with the model of this client.
LEMMA ListMeans ==
    ASSUME TypeOK, NEW a \in Keyed(Answer(200, "models")), Diagnose(a) = "OK", Visibility(a) = "OK"
    PROVE  /\ Ready /\ config.key
           /\ config.alias \in (IF args.api = "anthropic" THEN {"claude"} ELSE {"same", "claude"})
<1>1. a.body = "models"
  BY DEF Visibility
<1>2. a \notin Unready
  <2>1. \A status, body : Answer(status, body).body = body
    BY DEF Answer
  <2>2. ASSUME a \in Unready
        PROVE  FALSE
    BY <1>1, <2>1, <2>2, UnreadyAnswers, Diagnoses DEF ErrorPages
  <2> QED
    BY <2>2
<1>3. a # Answer(401, "key")
  BY Diagnoses
<1>4. Ready /\ config.key
  BY <1>2, <1>3, KeyedAnswers
<1>5. config.alias \in {"none", "other", "same", "claude"} /\ args.api \in {"openai", "anthropic"}
  BY DoctorAssumption DEF TypeOK, ConfigType
<1> QED
  BY <1>1, <1>4, <1>5 DEF Visibility, RequiresClaude

\* A request that is refused, times out or is cut off is no success.
LEMMA NoSuccess ==
    ASSUME TypeOK
    PROVE  /\ \A a \in Refusals \union ClosedAnswers : Generated(a) # "OK"
           /\ Diagnose(Answer(0, "timeout")) # "OK" /\ Diagnose(Answer(0, "reset")) # "OK"
<1>1. \A a \in Refusals : Generated(a) # "OK"
  BY RefusedFound
<1>2. \A a \in ClosedAnswers : Generated(a) # "OK"
  BY ClosedFound
<1> QED
  BY <1>1, <1>2, Diagnoses

LEMMA ShownKept ==
    ASSUME TypeOK, Order, Shown, Next
    PROVE  Shown'
<1>1. SUFFICES ASSUME changes' = 0 PROVE Shown'
  BY DEF Shown
<1>2. ASSUME UNCHANGED <<args, front, state, config, changes>>, pc' = pc, stage' = stage,
             worst' = worst
      PROVE  Shown'
  BY <1>2 DEF Shown
<1>3. CASE CheckHealth
  <2>1. pc' \in {"key", "done"} /\ stage' = stage /\ changes' = changes
    BY <1>3 DEF CheckHealth, Fails, Passes, Ends, Goes, server
  <2> QED
    BY <1>1, <2>1 DEF Shown
<1>4. CASE CheckKeyAndModel
  <2>1. UNCHANGED <<args, front, stage, state, config, changes>>
    BY <1>4 DEF CheckKeyAndModel, server
  <2>2. PICK a \in Keyed(Answer(200, "models")) :
          \/ \E c, f : Fails(c, f)
          \/ Diagnose(a) = "OK" /\ Visibility(a) = "OK" /\ Passes("model", "OK", "context")
    BY <1>4 DEF CheckKeyAndModel
  <2>3. CASE \E c, f : Fails(c, f)
    <3>1. pc' = "done"
      BY <2>3 DEF Fails, Ends, Goes
    <3> QED
      BY <1>1, <2>1, <3>1 DEF Shown
  <2>4. CASE Diagnose(a) = "OK" /\ Visibility(a) = "OK" /\ Passes("model", "OK", "context")
    <3>1. pc' = "context"
      BY <2>4 DEF Passes
    <3>2. /\ front # "page" /\ state = "up" /\ config.key
          /\ config.alias \in (IF args.api = "anthropic" THEN {"claude"} ELSE {"same", "claude"})
      BY <2>4, ListMeans, ReadyMeans
    <3> QED
      BY <1>1, <2>1, <3>1, <3>2 DEF Shown
  <2> QED
    BY <2>2, <2>3, <2>4
<1>5. CASE CheckContext
  <2>1. UNCHANGED <<args, front, stage, state, config, changes>> /\ pc = "context"
    BY <1>5 DEF CheckContext, server
  <2>2. pc' \in {"slots", "done"}
    BY <1>5 DEF CheckContext, Fails, Passes, Ends, Goes
  <2>3. front # "page" /\ state = "up" /\ config.key
    BY <1>1, <2>1 DEF Shown
  <2>4. pc' = "slots" => (args.pinned => config.fits)
    <3>1. \A a \in Keyed(Answer(200, "props")) : a.body = "props"
      <4>1. Ready
        BY <2>3, ReadyMeans
      <4>2. Answer(200, "props").body = "props"
        BY DEF Answer
      <4> QED
        BY <2>3, <4>1, <4>2 DEF Keyed
    <3>2. (args.pinned /\ ~config.fits) => \E f : Fails("context", f)
      BY <1>5, <3>1 DEF CheckContext
    <3> QED
      BY <3>2 DEF Fails, Ends, Goes
  <2> QED
    BY <1>1, <2>1, <2>2, <2>3, <2>4 DEF Shown
<1>6. CASE CheckSlots
  <2>1. UNCHANGED <<args, front, stage, state, config, changes>> /\ pc = "slots"
        /\ pc' \in {"completion", "done"}
    BY <1>6 DEF CheckSlots, server, Ends, Goes
  <2> QED
    BY <1>1, <2>1 DEF Shown
<1>7. ASSUME NEW f, Concludes(f), UNCHANGED <<args, front, state, config, changes>>,
             f # "OK" \/ pc # "tools" \/ (config.jinja /\ config.model = "calls")
      PROVE  Shown'
  <2>1. stage' = "unsent"
    BY <1>7, ConcludesNext
  <2>2. \/ pc = "completion" /\ pc' = "tools"
        \/ pc = "tools" /\ pc' = "stream" /\ (~worst' => f = "OK")
        \/ pc' = "done"
    BY <1>7 DEF Concludes, Ends, Goes, Worse
  <2> QED
    BY <1>1, <1>7, <2>1, <2>2 DEF Shown
<1>8. CASE Send
  <2>1. UNCHANGED <<args, front, state, config, changes>>
    BY <1>8 DEF Send, server
  <2>2. CASE Refusals = {} /\ stage' = "queued" /\ UNCHANGED <<pc, worst>>
    <3>1. changes = 0
      BY <1>1, <2>1
    <3>2. pc = "tools" => config.jinja
      <4>1. pc = "tools" => Ready /\ config.key
        BY <3>1, ReadyMeans DEF Shown
      <4>2. {Answer(500, "jinja")} # {}
        OBVIOUS
      <4> QED
        BY <2>2, <4>1, <4>2 DEF Refusals
    <3> QED
      BY <2>1, <2>2, <3>1, <3>2 DEF Shown
  <2>3. ASSUME NEW a \in Refusals,
               Concludes(IF pc = "stream" /\ Diagnose(a) = "OK" THEN Judged(stream) ELSE Generated(a))
        PROVE  Shown'
    <3>1. pc = "tools" => (IF pc = "stream" /\ Diagnose(a) = "OK" THEN Judged(stream) ELSE Generated(a)) # "OK"
      BY NoSuccess
    <3> QED
      BY <1>7, <2>1, <2>3, <3>1
  <2> QED
    BY <1>8, <2>2, <2>3 DEF Send
<1>9. CASE Replied
  <2>1. PICK a \in Replies : Reply(a)
    BY <1>9 DEF Replied
  <2>2. /\ UNCHANGED <<args, front, state, config, changes>>
        /\ stage = "running" /\ Concludes(Generated(a))
    BY <2>1 DEF Reply, SlotReturned
  <2>3. pc = "tools" => config.jinja
    BY <1>1, <2>2 DEF Shown
  <2>4. pc = "tools" /\ Generated(a) = "OK" => config.model = "calls"
    BY ReplyFound
  <2> QED
    BY <1>7, <2>2, <2>3, <2>4
<1>10. CASE TimeOut
  BY <1>7, <1>10, NoSuccess DEF TimeOut, SlotReturned
<1>11. CASE Closed
  <2>1. UNCHANGED <<args, front, state, config, changes>>
    BY <1>11 DEF Closed, server
  <2>2. PICK a \in ClosedAnswers :
          Concludes(IF pc = "stream" /\ Diagnose(a) = "OK" THEN Judged(stream) ELSE Generated(a))
    BY <1>11 DEF Closed, ClosedAnswers
  <2>3. pc = "tools" => (IF pc = "stream" /\ Diagnose(a) = "OK" THEN Judged(stream) ELSE Generated(a)) # "OK"
    BY NoSuccess
  <2> QED
    BY <1>7, <2>1, <2>2, <2>3
<1>12. CASE CutShort
  <2>1. stage' = "unsent" /\ pc' = "done" /\ changes' = changes
    BY <1>12 DEF CutShort, Goes, server
  <2> QED
    BY <2>1 DEF Shown
<1>13. CASE StreamEnds
  <2>1. UNCHANGED <<args, front, state, config, changes>> /\ pc = "stream" /\ \E f : Concludes(f)
    BY <1>13 DEF StreamEnds, server
  <2> QED
    BY <1>7, <2>1
<1>14. ASSUME NEW isFrame \in BOOLEAN, Collect(isFrame)
       PROVE  Shown'
  <2>1. UNCHANGED <<args, front, state, config, changes>> /\ pc = "stream"
    BY <1>14 DEF Collect, SlotReturned, server
  <2> QED
    BY <1>2, <1>7, <1>14, <2>1 DEF Collect
<1>15. CASE Begin \/ LastLine
  <2>1. UNCHANGED <<args, front, state, config, changes, pc, worst>> /\ stage # "unsent"
        /\ stage' \in {"running", "ended"}
    <3>1. CASE Begin
      BY <3>1 DEF Begin
    <3>2. CASE LastLine
      BY <3>2 DEF LastLine, SlotReturned
    <3> QED
      BY <1>15, <3>1, <3>2
  <2> QED
    BY <1>1, <2>1 DEF Shown
<1>16. CASE Emit \/ Ping \/ Tick \/ Others
  BY <1>2, <1>16 DEF Emit, Ping, Tick, Others, server
<1>17. CASE Stop \/ Launch \/ Loaded
  <2>1. changes' = changes + 1 /\ changes \in Nat
    BY <1>17, DoctorAssumption DEF Stop, Launch, Loaded, Changed, TypeOK
  <2> QED
    BY <1>1, <2>1
<1> QED
  BY <1>3, <1>4, <1>5, <1>6, <1>8, <1>9, <1>10, <1>11, <1>12, <1>13, <1>14, <1>15, <1>16, <1>17
     DEF Next, Doctor, Outside, Replied

-----------------------------------------------------------------------------
(* The theorems.                                                           *)

LEMMA InvInit == Init => DoctorInv
<1> SUFFICES ASSUME Init PROVE DoctorInv
  OBVIOUS
<1>0. MaxSeconds \in Nat /\ MaxSeconds > 0 /\ MaxLines \in Nat /\ MaxLines > 0 /\ MaxChanges \in Nat
      /\ args.timeout \in Nat /\ Burst \in Nat
  BY DoctorAssumption, PaceAssumption DEF Init
<1>1. /\ pc = "health" /\ stage = "unsent" /\ silent = 0 /\ stream = NoStream /\ changes = 0
      /\ finding.check = "none" /\ finding.outcome = "OK" /\ worst = FALSE /\ exit = "running"
  BY DEF Init, Finding
<1>2. /\ NoStream \in StreamType /\ NoStream.first = 0 /\ NoStream.last = 0
  BY DEF NoStream, NoLines, StreamType, LinesType
<1>3. TypeOK
  <2>1. /\ args \in Requests /\ front \in Fronts
        /\ state \in {"down", "loading", "up"} /\ config \in Configs /\ free \in BOOLEAN
    BY DEF Init
  <2>2. /\ stream \in StreamType
        /\ stream.lines <= MaxLines /\ stream.frames <= stream.made
        /\ stream.first <= stream.last /\ stream.last <= stream.elapsed
    BY <1>0, <1>1, <1>2, EmptyStream
  <2>3. changes \in 0..MaxChanges /\ silent \in 0..args.timeout
    BY <1>0, <1>1
  <2>4. /\ pc \in Checks \union {"done"} /\ worst \in BOOLEAN
        /\ finding.check \in Checks \union {"none"} /\ finding.outcome \in Found(finding.check)
    BY <1>1 DEF Checks, Found
  <2> QED
    BY <1>1, <2>1, <2>2, <2>3, <2>4 DEF TypeOK
<1>4. Order
  BY <1>1 DEF Order, Generating
<1>5. Books
  BY <1>0, <1>1, EmptyStream DEF Books
<1>6. Clock
  BY <1>0, <1>1, EmptyStream DEF Clock, NotForever
<1>7. Pace
  BY <1>0, <1>1, EmptyStream DEF Pace
<1>8. Withheld /\ Shown
  BY <1>1 DEF Withheld, Shown
<1> QED
  BY <1>3, <1>4, <1>5, <1>6, <1>7, <1>8 DEF DoctorInv

LEMMA InvKept == DoctorInv /\ [Next]_vars => DoctorInv'
<1> SUFFICES ASSUME DoctorInv, [Next]_vars PROVE DoctorInv'
  OBVIOUS
<1>1. CASE Next
  BY <1>1, TypesKept, OrderKept, BooksKept, ClockKept, PaceKept, WithheldKept, ShownKept DEF DoctorInv
<1>2. CASE UNCHANGED vars
  BY <1>2 DEF vars, server, DoctorInv, TypeOK, Order, Books, Clock, Pace, Withheld, Shown,
              Generating, NotForever
<1> QED
  BY <1>1, <1>2

LEMMA DoctorInvariant == Spec => []DoctorInv
<1>1. DoctorInv /\ [Next]_vars => DoctorInv'
  BY InvKept
<1> QED
  BY InvInit, <1>1, PTL DEF Spec

\* The variables have the values their comments say.
THEOREM DoctorTypes == Spec => []TypeOK
<1>1. DoctorInv => TypeOK
  BY DEF DoctorInv
<1> QED
  BY DoctorInvariant, <1>1, PTL

\* A check of the stream keeps nobody waiting for longer than both limits
\* together, whatever lines come and however far apart (stream_probe).
THEOREM EndsInTime == Spec => []NotForever
<1>1. DoctorInv => NotForever
  BY DEF DoctorInv, Clock
<1> QED
  BY DoctorInvariant, <1>1, PTL

\* A verdict on the stream is a cause that has nothing to do with it, or it is
\* judged by what was read till then; what was read did not come through a
\* connection that the server's stop has closed, unless lines were lost.
LEMMA Verdicts ==
    ASSUME TypeOK, Order, Next
    PROVE  \/ finding' = finding
           \/ finding'.check # "stream"
           \/ finding'.outcome \notin {"OK", "STREAM_BUFFERED", "STREAM_UNSUPPORTED"}
           \/ /\ pc = "stream" /\ finding'.outcome = Judged(stream') /\ front' = front
              /\ \/ stage = "unsent" /\ stream' = stream
                 \/ stage = "broken" /\ stream' = stream /\ (stream.lines = 0 \/ stream.wire = NoLines)
                 \/ stage = "ended" /\ stream' = stream /\ stream.wire = NoLines
                 \/ \E isFrame \in BOOLEAN : Collect(isFrame) /\ ~Keeps(stream'.lines, stream'.elapsed)
<1>1. \A f : Concludes(f) => finding'.check = pc /\ finding'.outcome = f
  BY FindingFields DEF Concludes
<1>2. CASE CheckHealth \/ CheckKeyAndModel \/ CheckContext \/ CheckSlots
  <2>1. \E c \in {"health", "key", "model", "context", "slots"} : \E f : Says(c, f)
    BY <1>2 DEF CheckHealth, CheckKeyAndModel, CheckContext, CheckSlots, Fails, Passes
  <2> QED
    BY <2>1, FindingFields
<1>3. CASE Send
  <2>1. CASE UNCHANGED finding
    BY <2>1
  <2>2. ASSUME NEW a \in Refusals,
               Concludes(IF pc = "stream" /\ Diagnose(a) = "OK" THEN Judged(stream) ELSE Generated(a))
        PROVE  \/ finding'.check # "stream"
               \/ finding'.outcome \notin {"OK", "STREAM_BUFFERED", "STREAM_UNSUPPORTED"}
               \/ pc = "stream" /\ finding'.outcome = Judged(stream)
    <3>1. Generated(a) \notin {"OK", "STREAM_BUFFERED", "STREAM_UNSUPPORTED"}
      BY RefusedFound
    <3> QED
      BY <1>1, <2>2, <3>1
  <2>3. stage = "unsent" /\ stream' = stream /\ front' = front
    BY <1>3 DEF Send
  <2> QED
    BY <1>3, <2>1, <2>2, <2>3 DEF Send
<1>4. CASE Replied
  <2>1. pc # "stream" /\ \E f : Concludes(f)
    BY <1>4 DEF Replied, Reply
  <2> QED
    BY <1>1, <2>1
<1>5. CASE TimeOut
  <2>1. Concludes("UNREACHABLE")
    BY <1>5, Diagnoses DEF TimeOut
  <2> QED
    BY <1>1, <2>1
<1>6. CASE Closed
  <2>1. PICK a \in ClosedAnswers :
          Concludes(IF pc = "stream" /\ Diagnose(a) = "OK" THEN Judged(stream) ELSE Generated(a))
    BY <1>6 DEF Closed, ClosedAnswers
  <2>2. Generated(a) \notin {"OK", "STREAM_BUFFERED", "STREAM_UNSUPPORTED"}
    BY ClosedFound
  <2>3. stage = "broken" /\ stream' = stream /\ front' = front /\ stream.lines = 0
    BY <1>6 DEF Closed
  <2> QED
    BY <1>1, <2>1, <2>2, <2>3
<1>7. CASE StreamEnds
  <2>1. pc = "stream" /\ stream' = stream /\ front' = front
    BY <1>7 DEF StreamEnds
  <2>2. \/ stage \in {"ended", "broken"} /\ stream.wire = NoLines /\ Concludes(Judged(stream))
        \/ Concludes("UNREACHABLE")
    BY <1>7, Diagnoses DEF StreamEnds
  <2> QED
    BY <1>1, <2>1, <2>2
<1>8. ASSUME NEW isFrame \in BOOLEAN, Collect(isFrame)
      PROVE  \/ finding' = finding
             \/ /\ pc = "stream" /\ finding'.outcome = Judged(stream') /\ front' = front
                /\ ~Keeps(stream'.lines, stream'.elapsed)
  BY <1>1, <1>8 DEF Collect
<1>9. CASE CutShort \/ Begin \/ Emit \/ Ping \/ LastLine \/ Stop \/ Launch \/ Loaded \/ Others \/ Tick
  BY <1>9 DEF CutShort, Begin, Emit, Ping, LastLine, Stop, Launch, Loaded, Others, Tick
<1> QED
  BY <1>2, <1>3, <1>4, <1>5, <1>6, <1>7, <1>8, <1>9 DEF Next, Doctor, Outside, Replied

\* What is not buffered is not judged to be: so many frames are a gap apart.
LEMMA PaceNotBlamed ==
    ASSUME NEW s, s.frames \in Nat, s.first \in Nat, s.last \in Nat,
           s.frames > Burst => s.first + Gap <= s.last
    PROVE  Judged(s) # "STREAM_BUFFERED"
<1>1. SUFFICES ASSUME AllAtOnce(s) PROVE FALSE
  BY DEF Judged
<1>2. s.frames >= MinFrames /\ s.last - s.first < Spread
  BY <1>1 DEF AllAtOnce
<1>3. s.frames > Burst
  BY <1>2, PaceAssumption
<1> QED
  BY <1>2, <1>3, PaceAssumption

\* A stream that nothing buffers is never called buffered: not a short one, not
\* one that breaks off, not one cut by a limit, whatever pings come with it
\* (check_streaming, stream_probe).
THEOREM NeverBlamed == Spec => []StreamNotBlamed
<1>1. Init => StreamNotBlamed
  BY DEF Init, Finding, StreamNotBlamed
<1>2. DoctorInv /\ DoctorInv' /\ StreamNotBlamed /\ [Next]_vars => StreamNotBlamed'
  <2> SUFFICES ASSUME DoctorInv, DoctorInv', StreamNotBlamed, [Next]_vars,
                      finding' = Finding("stream", "STREAM_BUFFERED")
               PROVE  front' = "holds"
    BY DEF StreamNotBlamed
  <2>1. finding'.check = "stream" /\ finding'.outcome = "STREAM_BUFFERED"
    BY DEF Finding
  <2>2. CASE finding' = finding
    <3>1. front' = front
      BY RequestKept DEF DoctorInv, vars
    <3> QED
      BY <2>2, <3>1 DEF StreamNotBlamed
  <2>3. CASE finding' # finding
    <3>1. Next
      BY <2>3 DEF vars
    <3>2. Judged(stream') = "STREAM_BUFFERED"
      BY <2>1, <2>3, <3>1, Verdicts DEF DoctorInv
    <3>3. stream'.frames \in Nat /\ stream'.first \in Nat /\ stream'.last \in Nat
      BY DEF DoctorInv, TypeOK, StreamType
    <3>4. front' # "holds" => (stream'.frames > Burst => stream'.first + Gap <= stream'.last)
      BY DEF DoctorInv, Pace
    <3> QED
      BY <3>2, <3>3, <3>4, PaceNotBlamed
  <2> QED
    BY <2>2, <2>3
<1>3. Spec => [](DoctorInv /\ StreamNotBlamed)
  BY InvInit, InvKept, <1>1, <1>2, PTL DEF Spec
<1> QED
  BY <1>3, PTL

\* A check that has ended does nothing more, and nobody looks at what happens
\* to the server.
LEMMA Frozen ==
    ASSUME Order, [Next]_vars, pc = "done"
    PROVE  UNCHANGED vars
<1>1. stage = "unsent"
  BY DEF Order, Generating
<1>2. \A f : ~Concludes(f)
  BY DEF Concludes
<1>3. ~CheckHealth /\ ~CheckKeyAndModel /\ ~CheckContext /\ ~CheckSlots
  BY DEF CheckHealth, CheckKeyAndModel, CheckContext, CheckSlots
<1>4. ~Send /\ ~Replied /\ ~TimeOut /\ ~Closed /\ ~CutShort
  BY <1>1 DEF Send, Generating, Replied, Reply, TimeOut, Overdue, Closed, CutShort
<1>5. ~StreamEnds /\ ~Begin /\ ~Emit /\ ~Ping /\ ~LastLine /\ ~Tick
      /\ \A isFrame \in BOOLEAN : ~Collect(isFrame)
  BY <1>1 DEF StreamEnds, Begin, Emit, Ping, LastLine, Tick, Collect
<1>6. ~Stop /\ ~Launch /\ ~Loaded /\ ~Others
  BY DEF Stop, Launch, Loaded, Others, Changed
<1> QED
  BY <1>3, <1>4, <1>5, <1>6 DEF Next, Doctor, Outside, Replied

\* A reply with enough text to judge that a proxy withheld to its end never
\* passes, if neither limit is in the way (check_streaming, stream_probe).
THEOREM WithheldIsCaught == Spec => []HeldIsCaught
<1>0. MinFrames \in Nat /\ MinFrames > 1 /\ Spread \in Nat /\ Spread > 0
      /\ MaxLines \in Nat /\ MaxSeconds \in Nat
  BY PaceAssumption, DoctorAssumption
<1>1. Init => HeldIsCaught
  <2>1. Init => finding.check = "none"
    BY DEF Init, Finding
  <2>2. Finding("stream", "OK").check = "stream"
    BY DEF Finding
  <2> QED
    BY <2>1, <2>2 DEF HeldIsCaught
<1>2. DoctorInv /\ DoctorInv' /\ HeldIsCaught /\ [Next]_vars => HeldIsCaught'
  <2> SUFFICES ASSUME DoctorInv, DoctorInv', HeldIsCaught, [Next]_vars,
                      front' = "holds", args'.timeout < MaxSeconds,
                      stream'.made >= MinFrames, SentLines' < MaxLines,
                      finding' = Finding("stream", "OK")
               PROVE  FALSE
    BY DEF HeldIsCaught
  <2>1. finding'.check = "stream" /\ finding'.outcome = "OK"
    BY DEF Finding
  <2>2. CASE finding' = finding
    <3>1. pc = "done"
      BY <2>1, <2>2 DEF DoctorInv, Order
    <3>2. UNCHANGED vars
      BY <3>1, Frozen DEF DoctorInv
    <3> QED
      BY <3>2 DEF HeldIsCaught, SentLines, vars
  <2>3. CASE finding' # finding
    <3>1. Next
      BY <2>3 DEF vars
    <3>2. /\ pc = "stream" /\ Judged(stream') = "OK" /\ front' = front
          /\ \/ stage = "unsent" /\ stream' = stream
             \/ stage = "broken" /\ stream' = stream
             \/ stage = "ended" /\ stream' = stream /\ stream.wire = NoLines
             \/ \E isFrame \in BOOLEAN : Collect(isFrame) /\ ~Keeps(stream'.lines, stream'.elapsed)
      BY <2>1, <2>3, <3>1, Verdicts DEF DoctorInv
    <3>3. CASE stage = "unsent" /\ stream' = stream
      <4>1. stream = NoStream
        BY <3>2, <3>3 DEF DoctorInv, Order
      <4> QED
        BY <1>0, <3>3, <4>1, EmptyStream
    <3>4. CASE stage = "broken" /\ stream' = stream
      <4>1. stream.lines = 0
        BY <3>2, <3>4 DEF DoctorInv, Withheld
      <4>2. stream'.frames = 0
        BY <3>4, <4>1, Typed DEF DoctorInv, Books
      <4> QED
        BY <3>2, <4>2 DEF Judged
    <3>5. CASE stage = "ended" /\ stream' = stream /\ stream.wire = NoLines
      <4>1. /\ stream.held = NoLines
            /\ stream.frames > 0 => stream.first = stream.elapsed /\ stream.last = stream.elapsed
        BY <3>2, <3>5 DEF DoctorInv, Withheld
      <4>2. stream.frames = stream.made
        <5>1. stream.frames + stream.wire.frames + stream.held.frames = stream.made
          BY <3>2, <3>5 DEF DoctorInv, Books
        <5>2. stream.wire.frames = 0 /\ stream.held.frames = 0
          BY <3>5, <4>1 DEF NoLines
        <5> QED
          BY <5>1, <5>2, Typed DEF DoctorInv
      <4>3. stream.frames >= MinFrames /\ stream.last - stream.first < Spread
        BY <1>0, <3>5, <4>1, <4>2, Typed DEF DoctorInv
      <4> QED
        BY <1>0, <3>2, <3>5, <4>3 DEF Judged, AllAtOnce
    <3>6. ASSUME NEW isFrame \in BOOLEAN, Collect(isFrame), ~Keeps(stream'.lines, stream'.elapsed)
          PROVE  FALSE
      <4>1. stage = "ended"
        BY <3>2, <3>6 DEF DoctorInv, Withheld, Collect, NoLines
      <4>2. stream'.elapsed < MaxSeconds
        <5>1. args' = args /\ stream'.elapsed = stream.elapsed
          BY <3>6, CollectFields DEF DoctorInv, Collect
        <5>2. stream.elapsed <= args.timeout
          BY <3>2, <4>1 DEF DoctorInv, Withheld
        <5> QED
          BY <1>0, <5>1, <5>2, Typed DEF DoctorInv
      <4>3. stream'.lines >= MaxLines
        <5>1. stream'.lines \in Nat
          BY DEF DoctorInv, TypeOK, StreamType
        <5> QED
          BY <1>0, <3>6, <4>2, <5>1 DEF Keeps
      <4>4. /\ stream'.lines \in Nat
            /\ stream'.wire.frames \in Nat /\ stream'.wire.others \in Nat
            /\ stream'.held.frames \in Nat /\ stream'.held.others \in Nat
        BY DEF DoctorInv, TypeOK, StreamType, LinesType
      <4> QED
        BY <1>0, <4>3, <4>4 DEF SentLines
    <3> QED
      BY <3>2, <3>3, <3>4, <3>5, <3>6
  <2> QED
    BY <2>2, <2>3
<1>3. Spec => [](DoctorInv /\ HeldIsCaught)
  BY InvInit, InvKept, <1>1, <1>2, PTL DEF Spec
<1> QED
  BY <1>3, PTL

\* If all checks pass and the server did not change on the way, an agent works
\* with it (cmd_check).
THEOREM PassedIsUsable == Spec => []PassMeansUsable
<1>1. Init => PassMeansUsable
  BY DEF Init, PassMeansUsable
<1>2. DoctorInv /\ PassMeansUsable /\ [Next]_vars => PassMeansUsable'
  <2> SUFFICES ASSUME DoctorInv, PassMeansUsable, [Next]_vars,
                      exit' = "passed", changes' = 0, args'.inference, args'.agent
               PROVE  (Works /\ front # "page")'
    BY DEF PassMeansUsable
  <2>1. CASE pc = "done"
    <3>1. UNCHANGED vars
      BY <2>1, Frozen DEF DoctorInv
    <3> QED
      BY <3>1 DEF PassMeansUsable, Works, vars, server
  <2>2. CASE pc # "done"
    <3>1. exit = "running" /\ Next
      BY <2>2 DEF DoctorInv, Order, vars
    <3>2. args' = args /\ front' = front
      BY <3>1, RequestKept DEF DoctorInv
    <3>3. \A c, f : ~Fails(c, f)
      BY DEF Fails, Ends, Goes
    <3>4. \A c, f, next : ~Passes(c, f, next)
      BY <3>1 DEF Passes
    <3>5. \A f : Concludes(f) => pc = "stream" /\ ~worst
      <4>1. ASSUME NEW f, Concludes(f)
            PROVE  pc = "stream" /\ ~worst
        <5>1. exit' # exit /\ ~worst'
          BY <3>1, <4>1 DEF Concludes, Ends, Goes
        <5>2. pc = "stream" \/ (pc = "completion" /\ (f # "OK" \/ ~args.agent))
          BY <4>1, <5>1 DEF Concludes
        <5> QED
          BY <3>2, <4>1, <5>1, <5>2 DEF Concludes, Worse
      <4> QED
        BY <4>1
    <3>6. \E f : Concludes(f)
      <4>1. ~CheckHealth /\ ~CheckKeyAndModel /\ ~CheckContext
        BY <3>3, <3>4 DEF CheckHealth, CheckKeyAndModel, CheckContext
      <4>2. ~CheckSlots
        BY <3>1, <3>2 DEF CheckSlots
      <4>3. ~CutShort
        BY DEF CutShort, Goes
      <4>4. ~Begin /\ ~Emit /\ ~Ping /\ ~LastLine /\ ~Tick /\ ~Stop /\ ~Launch /\ ~Loaded /\ ~Others
        BY <3>1 DEF Begin, Emit, Ping, LastLine, Tick, Stop, Launch, Loaded, Others
      <4>5. Send \/ Replied \/ TimeOut \/ Closed \/ StreamEnds => \E f : Concludes(f)
        BY <3>1 DEF Send, Replied, Reply, TimeOut, Closed, StreamEnds
      <4>6. \A isFrame \in BOOLEAN : Collect(isFrame) => \E f : Concludes(f)
        BY <3>1 DEF Collect
      <4> QED
        BY <3>1, <4>1, <4>2, <4>3, <4>4, <4>5, <4>6 DEF Next, Doctor, Outside, Replied
    <3>7. pc = "stream" /\ ~worst
      BY <3>5, <3>6
    <3>8. UNCHANGED <<state, config, changes>>
      <4>1. ~CheckHealth /\ ~CheckKeyAndModel /\ ~CheckContext /\ ~CheckSlots /\ ~Replied
        BY <3>7 DEF CheckHealth, CheckKeyAndModel, CheckContext, CheckSlots, Replied, Reply
      <4>2. ~Begin /\ ~Emit /\ ~Ping /\ ~LastLine /\ ~Tick /\ ~Stop /\ ~Launch /\ ~Loaded /\ ~Others /\ ~CutShort
        BY <3>1, <3>7 DEF Begin, Emit, Ping, LastLine, Tick, Stop, Launch, Loaded, Others, CutShort
      <4>3. Send \/ TimeOut \/ Closed \/ StreamEnds => UNCHANGED <<state, config, changes>>
        BY DEF Send, TimeOut, SlotReturned, Closed, StreamEnds, server
      <4>4. \A isFrame \in BOOLEAN : Collect(isFrame) => UNCHANGED <<state, config, changes>>
        BY DEF Collect, SlotReturned, server
      <4> QED
        BY <3>1, <4>1, <4>2, <4>3, <4>4 DEF Next, Doctor, Outside, Replied
    <3>9. Works /\ front # "page"
      BY <3>7, <3>8 DEF DoctorInv, Shown, Works
    <3> QED
      BY <3>2, <3>8, <3>9 DEF Works
  <2> QED
    BY <2>1, <2>2
<1>3. Spec => [](DoctorInv /\ PassMeansUsable)
  BY InvInit, InvKept, <1>1, <1>2, PTL DEF Spec
<1> QED
  BY <1>3, PTL

\* "Map one observation to one cause" (diagnose): when a check names a cause, it
\* is there at that moment, although the server changes between the requests; but
\* for a reply with nothing in it.
THEOREM CausesAreReal == Spec => BlamesACause
<1>1. TypeOK /\ [Next]_vars =>
         [finding' # finding => Cause(finding'.outcome) \/ Reply(Empty)]_vars
  <2> SUFFICES ASSUME TypeOK, Next, finding' # finding, ~Reply(Empty)
               PROVE  Cause(finding'.outcome)
    BY DEF vars
  <2> DEFINE Neutral == {"OK", "unknown", "free", "busy", "STREAM_UNSUPPORTED", "STREAM_BUFFERED"}
  <2>1. \A f \in Neutral : Cause(f)
    BY DEF Cause
  <2>2. /\ args.api \in {"openai", "anthropic"}
        /\ config.alias \in {"none", "other", "same", "claude"} /\ config.model \in {"calls", "prose", "broken"}
    BY DoctorAssumption DEF TypeOK, ConfigType
  <2>22. Elsewhere => \A f \in {"BAD_ENDPOINT", "SERVER_ERROR", "TOOLS_IGNORED"} : Cause(f)
    BY DEF Cause
  <2>3. ASSUME NEW a \in Unready
        PROVE  /\ Cause(Diagnose(a))
               /\ Diagnose(a) = "OK" => a \in {Answer(200, "page"), Answer(200, "json")} /\ Elsewhere
    <3>1. \/ a \in {Answer(200, "page"), Answer(200, "json"), Answer(404, "page")} /\ front = "page"
          \/ a \in {Answer(0, "refused"), Answer(0, "timeout")} /\ state = "down"
          \/ a \in ErrorPages /\ front # "none" /\ state = "down"
          \/ a = Answer(503, "loading") /\ state = "loading"
      BY <2>3, UnreadyAnswers
    <3>2. /\ front = "page" \/ (front # "none" /\ state = "down") => Elsewhere
          /\ state = "down" => Cause("UNREACHABLE")
          /\ state = "loading" => Cause("LOADING")
      BY DEF Cause, Absent, Elsewhere
    <3> QED
      BY <2>1, <2>22, <3>1, <3>2, Diagnoses DEF ErrorPages
  <2>4. ~config.key => Cause("UNAUTHORISED")
    BY DEF Cause
  <2>5. ASSUME NEW a \in Refusals
        PROVE  Cause(Generated(a))
    <3>1. CASE a \in Unready
      <4>1. Diagnose(a) # "OK" => Generated(a) = Diagnose(a)
        BY DEF Generated
      <4>2. Diagnose(a) = "OK" => Generated(a) \in {"BAD_ENDPOINT", "SERVER_ERROR", "TOOLS_IGNORED"}
        BY <2>3, <3>1, Generates
      <4> QED
        BY <2>3, <2>22, <3>1, <4>1, <4>2
    <3>2. CASE a = Answer(401, "key") /\ ~config.key
      BY <2>4, <3>2, Generates
    <3>3. CASE a = Answer(500, "jinja") /\ pc = "tools" /\ ~config.jinja
      <4>1. Cause("NOT_ENABLED")
        BY <3>3 DEF Cause
      <4> QED
        BY <3>3, <4>1, Generates
    <3> QED
      BY <3>1, <3>2, <3>3, <2>5, KeyedAnswers DEF Refusals
  <2>6. \A s : Cause(Judged(s))
    BY <2>1, JudgedFound
  <2>7. \A f : Concludes(f) => finding'.outcome = f
    BY FindingFields DEF Concludes
  <2>8. \A c, f : Fails(c, f) => finding'.outcome = f
    BY FindingFields DEF Fails
  <2>9. \A c, f, next : Passes(c, f, next) => finding'.outcome = f
    BY FindingFields DEF Passes
  <2>10. CASE CheckHealth
    <3>1. PICK a \in Health : finding'.outcome \in {Diagnose(a), "OK"}
      BY <2>8, <2>9, <2>10 DEF CheckHealth
    <3>2. Cause(Diagnose(a))
      BY <2>1, <2>3, Diagnoses DEF Health
    <3> QED
      BY <2>1, <3>1, <3>2
  <2>11. CASE CheckKeyAndModel
    <3>1. PICK a \in Keyed(Answer(200, "models")) :
               \/ finding'.outcome = Diagnose(a) /\ Diagnose(a) # "OK"
               \/ finding'.outcome = Visibility(a) /\ Diagnose(a) = "OK"
               \/ finding'.outcome = "OK"
      BY <2>8, <2>9, <2>11 DEF CheckKeyAndModel
    <3>2. Cause(Diagnose(a)) /\ (Diagnose(a) = "OK" => Elsewhere \/ a.body = "models")
      <4>1. Answer(200, "models").body = "models"
        BY DEF Answer
      <4> QED
        BY <2>1, <2>3, <2>4, <4>1, Diagnoses, KeyedAnswers
    <3>3. Diagnose(a) = "OK" => Cause(Visibility(a))
      <4>1. config.alias \in {"none", "other"} => Cause("MODEL_NOT_FOUND")
        BY DEF Cause
      <4>2. args.api = "anthropic" /\ config.alias = "same" => Cause("ALIAS_NOT_CLAUDE_COMPATIBLE")
        BY DEF Cause
      <4> QED
        BY <2>1, <2>2, <2>22, <3>2, <4>1, <4>2 DEF Visibility, RequiresClaude
    <3> QED
      BY <2>1, <3>1, <3>2, <3>3
  <2>12. CASE CheckContext
    <3>1. finding'.outcome \in {"unknown", "OK"} \/ (finding'.outcome = "too much" /\ args.pinned /\ ~config.fits)
      BY <2>8, <2>9, <2>12 DEF CheckContext
    <3>2. args.pinned /\ ~config.fits => Cause("too much")
      BY DEF Cause
    <3> QED
      BY <2>1, <3>1, <3>2
  <2>13. CASE CheckSlots
    <3>1. \E f \in {"busy", "unknown", "free"} : Says("slots", f)
      BY <2>13 DEF CheckSlots
    <3> QED
      BY <2>1, <3>1, FindingFields
  <2>14. CASE Send
    <3>1. PICK a \in Refusals :
            Concludes(IF pc = "stream" /\ Diagnose(a) = "OK" THEN Judged(stream) ELSE Generated(a))
      BY <2>14 DEF Send
    <3> QED
      BY <2>5, <2>6, <2>7, <3>1
  <2>15. CASE Replied
    <3>1. \/ pc = "tools" /\ finding'.outcome = Generated(ToolReply)
          \/ pc # "tools" /\ finding'.outcome = Generated(Answer(200, "text"))
      <4>1. PICK a \in Replies : Reply(a)
        BY <2>15 DEF Replied
      <4>2. a # Empty /\ finding'.outcome = Generated(a)
        BY <2>7, <4>1 DEF Reply
      <4> QED
        BY <4>2 DEF Replies
    <3>2. pc = "tools" => Cause(Generated(ToolReply))
      <4>1. /\ config.model = "broken" => Cause("SERVER_ERROR")
            /\ config.model = "prose" => Cause("TOOLS_IGNORED")
            /\ config.model = "broken" /\ args.api = "openai" => Cause("TOOLS_MALFORMED")
        BY DEF Cause
      <4> QED
        BY <2>1, <2>2, <4>1, Generates DEF ToolReply
    <3> QED
      BY <2>1, <3>1, <3>2, Generates
  <2>16. CASE TimeOut
    <3>1. finding'.outcome = "UNREACHABLE" /\ silent = args.timeout
      BY <2>7, <2>16, Diagnoses DEF TimeOut, Overdue
    <3> QED
      BY <3>1 DEF Cause
  <2>17. stage = "broken" => Cause("UNREACHABLE") /\ (front # "none" => Elsewhere)
    BY DEF Cause, Absent, Elsewhere
  <2>18. CASE Closed
    <3>1. PICK a \in ClosedAnswers :
            Concludes(IF pc = "stream" /\ Diagnose(a) = "OK" THEN Judged(stream) ELSE Generated(a))
      BY <2>18 DEF Closed, ClosedAnswers
    <3>2. stage = "broken"
      BY <2>18 DEF Closed
    <3> QED
      BY <2>6, <2>7, <2>17, <2>22, <3>1, <3>2, ClosedFound
  <2>19. CASE StreamEnds
    <3>1. finding'.outcome = Judged(stream) \/ (stage = "broken" /\ finding'.outcome = "UNREACHABLE")
      BY <2>7, <2>19, Diagnoses DEF StreamEnds
    <3> QED
      BY <2>6, <2>17, <3>1
  <2>20. ASSUME NEW isFrame \in BOOLEAN, Collect(isFrame)
         PROVE  Cause(finding'.outcome)
    BY <2>6, <2>7, <2>20 DEF Collect
  <2>21. ~CutShort /\ ~Begin /\ ~Emit /\ ~Ping /\ ~LastLine /\ ~Stop /\ ~Launch /\ ~Loaded /\ ~Others /\ ~Tick
    BY DEF CutShort, Begin, Emit, Ping, LastLine, Stop, Launch, Loaded, Others, Tick
  <2> QED
    BY <2>10, <2>11, <2>12, <2>13, <2>14, <2>15, <2>16, <2>18, <2>19, <2>20, <2>21
       DEF Next, Doctor, Outside, Replied
<1>2. DoctorInv => TypeOK
  BY DEF DoctorInv
<1> QED
  BY DoctorInvariant, <1>1, <1>2, PTL DEF Spec, BlamesACause

\* While an agent would work, a check fails for nothing but waiting and a reply
\* with nothing in it.
THEOREM UsablePasses == Spec => UsableMeansPass
<1> DEFINE Excused == \/ silent = args.timeout \/ Reply(Empty)
                      \/ finding' = Finding("stream", "STREAM_UNSUPPORTED") /\ Limited(stream')
<1>1. DoctorInv /\ DoctorInv' /\ [Next]_vars =>
        [worst' /\ ~worst /\ Works /\ front = "none" /\ stage # "broken" => Excused]_vars
  <2> SUFFICES ASSUME DoctorInv, DoctorInv', Next,
                      worst', ~worst, Works, front = "none", stage # "broken"
               PROVE  Excused
    BY DEF vars
  <2>1. Ready /\ config.key /\ TypeOK /\ Order
    BY ReadyMeans DEF DoctorInv, Works
  <2>2. args.api \in {"openai", "anthropic"} /\ config.alias \in {"none", "other", "same", "claude"}
    BY <2>1, DoctorAssumption DEF TypeOK, ConfigType
  <2>3. \A f : Concludes(f) => f # "OK"
    BY DEF Concludes, Worse
  <2>4. \A c, f, next : ~Passes(c, f, next)
    BY DEF Passes
  <2>5. ~CheckHealth
    <3>1. Health = {Answer(200, "ok")}
      BY <2>1 DEF Health
    <3> QED
      BY <2>4, <3>1, Diagnoses DEF CheckHealth
  <2>6. ~CheckKeyAndModel
    <3>1. Keyed(Answer(200, "models")) = {Answer(200, "models")}
      BY <2>1 DEF Keyed
    <3>2. Visibility(Answer(200, "models")) = "OK"
      <4>1. Answer(200, "models").body = "models"
        BY DEF Answer
      <4> QED
        BY <2>2, <4>1 DEF Visibility, RequiresClaude, Works
    <3> QED
      BY <2>4, <3>1, <3>2, Diagnoses DEF CheckKeyAndModel
  <2>7. ~CheckContext
    BY <2>1, <2>4 DEF CheckContext, Works
  <2>8. ~CheckSlots /\ ~CutShort /\ ~Begin /\ ~Emit /\ ~Ping /\ ~LastLine /\ ~Stop /\ ~Launch /\ ~Loaded
        /\ ~Others /\ ~Tick
    BY DEF CheckSlots, CutShort, Begin, Emit, Ping, LastLine, Stop, Launch, Loaded, Others, Tick
  <2>9. ~Send
    <3>1. Refusals = {}
      BY <2>1 DEF Refusals, Works
    <3> QED
      BY <3>1 DEF Send
  <2>10. Replied => Excused
    <3>1. ASSUME NEW a \in Replies, Reply(a), a # Empty
          PROVE  FALSE
      <4>1. Generated(a) = "OK"
        BY <2>1, <3>1, ReplyFound DEF Works
      <4> QED
        BY <2>3, <3>1, <4>1 DEF Reply
    <3> QED
      BY <3>1 DEF Replied
  <2>11. TimeOut => Excused
    BY DEF TimeOut, Overdue
  <2>12. ~Closed
    BY DEF Closed
  <2>13. /\ stream'.frames \in Nat /\ stream'.first \in Nat /\ stream'.last \in Nat
         /\ stream'.lines \in Nat /\ stream'.elapsed \in Nat
         /\ MaxLines \in Nat /\ MaxSeconds \in Nat
    BY DoctorAssumption DEF DoctorInv, TypeOK, StreamType
  <2>14. front' = "none"
    BY RequestKept DEF DoctorInv
  <2>15. Judged(stream') # "STREAM_BUFFERED"
    <3>1. stream'.frames > Burst => stream'.first + Gap <= stream'.last
      BY <2>14 DEF DoctorInv, Pace
    <3> QED
      BY <2>13, <3>1, PaceNotBlamed
  <2>16. Judged(stream') # "OK" => Judged(stream') = "STREAM_UNSUPPORTED" /\ stream'.frames = 0
    BY <2>15, JudgedFound DEF Judged
  <2>17. ~StreamEnds
    <3>1. ASSUME StreamEnds
          PROVE  FALSE
      <4>1. /\ pc = "stream" /\ stage = "ended" /\ stream.wire = NoLines /\ stream' = stream
            /\ Concludes(Judged(stream))
        BY <3>1 DEF StreamEnds
      <4>2. stream.held = NoLines /\ stream.made > 0
            /\ stream.frames + stream.wire.frames + stream.held.frames = stream.made
        BY <4>1 DEF DoctorInv, Books
      <4>3. stream.frames > 0
        BY <2>1, <4>1, <4>2, Typed DEF NoLines
      <4> QED
        BY <2>3, <2>16, <4>1, <4>3
    <3> QED
      BY <3>1
  <2>18. ASSUME NEW isFrame \in BOOLEAN, Collect(isFrame)
         PROVE  Excused
    <3>1. pc = "stream" /\ ~Keeps(stream'.lines, stream'.elapsed) /\ Concludes(Judged(stream'))
      BY <2>18 DEF Collect
    <3>2. Judged(stream') = "STREAM_UNSUPPORTED" /\ stream'.frames = 0
      BY <2>3, <2>16, <3>1
    <3>3. finding' = Finding("stream", "STREAM_UNSUPPORTED")
      BY <3>1, <3>2 DEF Concludes, Says
    <3>4. stream'.elapsed >= MaxSeconds \/ stream'.lines = MaxLines
      <4>1. stream'.lines <= MaxLines
        BY DEF DoctorInv, TypeOK
      <4> QED
        BY <2>13, <3>1, <4>1 DEF Keeps
    <3> QED
      BY <3>2, <3>3, <3>4 DEF Limited
  <2> QED
    BY <2>5, <2>6, <2>7, <2>8, <2>9, <2>10, <2>11, <2>12, <2>17, <2>18 DEF Next, Doctor, Outside, Replied
<1> QED
  BY DoctorInvariant, <1>1, PTL DEF Spec, UsableMeansPass

=============================================================================
