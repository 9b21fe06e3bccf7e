----------------------------- MODULE ClientDoctor -----------------------------
(***************************************************************************)
(* `check` on a laptop: cmd_check (cli.py) sends one request after the     *)
(* other and gives each answer to client.py, which names one cause.  The   *)
(* last request is a stream, judged by when its lines arrived.             *)
(*                                                                         *)
(* One check is a behavior.  Meanwhile the server may stop, load and come  *)
(* back with other flags, and others take and leave its slots.  Time       *)
(* passes while the check waits, in ticks: no tick while there is a line   *)
(* to read, as reading takes no time that matters.                         *)
(*                                                                         *)
(* External: llama-server, which answers 503 until its model is loaded,    *)
(* looks at the key then, and queues what finds no slot; and what stands   *)
(* in front of it: nothing, a proxy that buffers a reply to its end        *)
(* ("holds"), or another web site ("page").                                *)
(***************************************************************************)
EXTENDS Naturals

CONSTANTS
    Configs,    \* what the server may be started with
    Fronts,     \* what may stand between the laptop and the server
    Requests,   \* the arguments of check, and whether a context is pinned
    MinFrames,  \* MIN_FRAMES_TO_JUDGE_TIMING
    Spread,     \* BUFFERED_SPREAD_S, in ticks
    MaxLines,   \* STREAM_PROBE_MAX_FRAMES
    MaxSeconds, \* STREAM_PROBE_MAX_SECONDS, in ticks
    Gap,        \* the least time between two steps of generation, in ticks
    Burst,      \* the most frames that one step of generation yields
    MaxReply,   \* bound: the most frames of a reply
    MaxChanges  \* bound: how often the server stops, is started or is loaded

ConfigType ==
    [key : BOOLEAN,     \* it accepts the key of this laptop
     alias : {"none", "other", "same", "claude"},  \* the id it offers; "claude": the same, with claude in it
     fits : BOOLEAN,    \* a slot holds the context of this laptop
     slots : BOOLEAN,   \* /slots is enabled
     jinja : BOOLEAN,
     model : {"calls", "prose", "broken"}]  \* what becomes of a tool call

ASSUME DoctorAssumption ==
    /\ Configs \subseteq ConfigType
    /\ Fronts \subseteq {"none", "holds", "page"}
    /\ Requests \subseteq [api : {"openai", "anthropic"}, pinned : BOOLEAN,
                           inference : BOOLEAN, agent : BOOLEAN, timeout : Nat \ {0}]
    /\ MaxLines \in Nat \ {0} /\ MaxSeconds \in Nat \ {0}
    /\ MaxReply \in Nat \ {0} /\ MaxChanges \in Nat

\* "a genuine stream from this hardware is an order of magnitude slower than
\* the threshold" (client.py): two steps of generation are further apart than
\* it, and no single one yields enough frames to be judged.
ASSUME PaceAssumption ==
    /\ Spread \in Nat \ {0} /\ Gap \in Nat /\ Spread <= Gap
    /\ MinFrames \in Nat /\ Burst \in Nat \ {0} /\ Burst < MinFrames

VARIABLES
    args,       \* the arguments
    front,      \* what stands in front of the server
    state,      \* the server: "down", "loading" or "up"
    config,     \* what it was started with
    free,       \* is one of its slots free?
    changes,    \* how often it changed
    pc,         \* the check that is next, or "done"
    stage,      \* of a request that generates: "unsent", "queued", "running", "ended",
                \* or, once the server has stopped, "broken" or, if nobody says so, "lost"
    silent,     \* ticks since the request was sent or a line of its reply came
    stream,     \* the reply that streams
    finding,    \* what was printed last
    worst,      \* has a check failed?
    exit        \* "running", then "passed", "failed" or "raised"

server == <<state, config, free, changes>>
vars == <<args, front, server, pc, stage, silent, stream, finding, worst, exit>>

Checks == {"health", "key", "model", "context", "slots", "completion", "tools", "stream"}

Finding(check, outcome) == [check |-> check, outcome |-> outcome]

\* Lines are frames that carry text, with the blank line after each, or pings.
LinesType == [frames : Nat, others : Nat]
NoLines == [frames |-> 0, others |-> 0]
StreamType ==
    [made : Nat, left : Nat,        \* frames that are generated, and still to come
     rest : Nat, pinged : BOOLEAN,  \* ticks to the next step; was there a ping in this one?
     held : LinesType, wire : LinesType,    \* lines in the proxy, and not yet read
     elapsed : Nat, lines : Nat, frames : Nat,  \* ticks; lines and frames that were read
     first : Nat, last : Nat]       \* when the first and the last of these frames came
NoStream ==
    [made |-> 0, left |-> 0, rest |-> 0, pinged |-> FALSE, held |-> NoLines, wire |-> NoLines,
     elapsed |-> 0, lines |-> 0, frames |-> 0, first |-> 0, last |-> 0]

Init ==
    /\ args \in Requests /\ front \in Fronts
    /\ state \in {"down", "loading", "up"} /\ config \in Configs /\ free \in BOOLEAN
    /\ changes = 0
    /\ pc = "health" /\ stage = "unsent" /\ silent = 0 /\ stream = NoStream
    /\ finding = Finding("none", "OK") /\ worst = FALSE /\ exit = "running"

-----------------------------------------------------------------------------
(* External: what answers.  A status of 0 is no answer at all.             *)

Answer(status, body) == [status |-> status, body |-> body]

\* A proxy in front of nothing, also one with "a cheerful 200" (client.py), which
\* may hold JSON of another shape than llama-server's.
ErrorPages == {Answer(502, "page"), Answer(200, "page"), Answer(200, "json")}

\* For every path: nothing there, a site that is not llama-server, a model
\* that is not loaded.
Unready ==
    IF front = "page" THEN {Answer(200, "page"), Answer(200, "json"), Answer(404, "page")}
    ELSE IF state = "down" /\ front = "none" THEN {Answer(0, "refused"), Answer(0, "timeout")}
    ELSE IF state = "down" THEN ErrorPages
    ELSE IF state = "loading" THEN {Answer(503, "loading")}
    ELSE {}

Ready == Unready = {}

Health == IF Ready THEN {Answer(200, "ok")} ELSE Unready

Keyed(answer) ==
    IF ~Ready THEN Unready ELSE IF ~config.key THEN {Answer(401, "key")} ELSE {answer}

Slots ==
    Keyed(IF ~config.slots THEN Answer(501, "off")
          ELSE IF free THEN Answer(200, "slots") ELSE Answer(503, "no slot"))

\* The Anthropic path is a shim, which fails where OpenAI's passes on what the
\* model made of a call.
ToolReply ==
    IF config.model = "broken" /\ args.api = "anthropic" THEN Answer(500, "error")
    ELSE Answer(200, config.model)

\* A list of choices, or of content, with nothing in it
Empty == Answer(200, "empty")

\* What comes of a request that is served to its end
Replies == {Empty, IF pc = "tools" THEN ToolReply ELSE Answer(200, "text")}

\* What is refused before it is queued
Refusals ==
    IF ~Ready \/ ~config.key THEN Keyed(Answer(200, "ok"))
    ELSE IF pc = "tools" /\ ~config.jinja THEN {Answer(500, "jinja")}
    ELSE {}

-----------------------------------------------------------------------------
(* client.py: one observation, one cause.                                  *)

\* Mutant of ServerError: its message is not read.
ServerErrorUnread(a) == "SERVER_ERROR"

ServerError(a) == IF a.body = "jinja" THEN "NOT_ENABLED" ELSE "SERVER_ERROR"

\* diagnose, for what may come: the prompts of check fit every slot
Diagnose(a) ==
    CASE a.status = 0 -> "UNREACHABLE"
      [] a.status = 200 -> "OK"
      [] a.status = 503 /\ a.body = "no slot" -> "NO_CAPACITY"
      [] a.status = 503 /\ a.body = "loading" -> "LOADING"
      [] a.status = 401 -> "UNAUTHORISED"
      [] a.status = 404 -> "BAD_ENDPOINT"
      [] a.status = 501 -> "NOT_ENABLED"
      [] OTHER -> ServerError(a)

\* Mutant of RequiresClaude: every client filters its list of models.
RequiresClaudeAlways(api) == TRUE

\* requires_claude_alias
RequiresClaude(api) == api = "anthropic"

\* check_model_visibility
Visibility(a) ==
    IF a.body # "models" THEN "BAD_ENDPOINT"
    ELSE IF config.alias \in {"none", "other"} THEN "MODEL_NOT_FOUND"
    ELSE IF RequiresClaude(args.api) /\ config.alias # "claude" THEN "ALIAS_NOT_CLAUDE_COMPATIBLE"
    ELSE "OK"

\* check_inference, of a 200: JSON without the list of its API, or with an
\* empty one, is no success.
Completed(a) ==
    CASE a.body = "page" -> "BAD_ENDPOINT"
      [] a.body \in {"json", "empty"} -> "SERVER_ERROR"
      [] OTHER -> "OK"

\* check_tool_calling, of a 200: whatever JSON holds no tool call is taken for
\* prose.
ToolsCalled(a) ==
    CASE a.body = "page" -> "BAD_ENDPOINT"
      [] a.body \in {"prose", "json", "empty"} -> "TOOLS_IGNORED"
      [] a.body = "broken" -> "TOOLS_MALFORMED"
      [] OTHER -> "OK"

\* What the two make of any answer
Generated(a) ==
    IF Diagnose(a) # "OK" THEN Diagnose(a)
    ELSE IF pc = "tools" THEN ToolsCalled(a) ELSE Completed(a)

\* Mutants of AllAtOnce: few frames are judged as well; time is measured from the
\* request on.
AllAtOnceOfFew(s) == s.frames > 0 /\ s.last - s.first < Spread
AllAtOnceFromStart(s) == s.frames >= MinFrames /\ s.last < Spread

AllAtOnce(s) == s.frames >= MinFrames /\ s.last - s.first < Spread

\* check_streaming
Judged(s) ==
    IF s.frames = 0 THEN "STREAM_UNSUPPORTED"
    ELSE IF AllAtOnce(s) THEN "STREAM_BUFFERED"
    ELSE "OK"

-----------------------------------------------------------------------------
(* cmd_check: one check after the other.                                   *)

Says(c, f) == finding' = Finding(c, f)

Goes(how) == pc' = "done" /\ exit' = how
Ends == Goes(IF worst' THEN "failed" ELSE "passed")
Fails(c, f) == Says(c, f) /\ worst' = TRUE /\ Ends
Passes(c, f, next) == Says(c, f) /\ pc' = next /\ UNCHANGED <<worst, exit>>

CheckHealth ==
    /\ pc = "health"
    /\ \E a \in Health :
          \/ Diagnose(a) # "OK" /\ Fails("health", Diagnose(a))
          \/ Diagnose(a) = "OK" /\ Passes("health", "OK", "key")
    /\ UNCHANGED <<args, front, server, stage, silent, stream>>

\* The list of models is the answer that shows that the key is accepted
CheckKeyAndModel ==
    /\ pc = "key"
    /\ \E a \in Keyed(Answer(200, "models")) :
          \/ Diagnose(a) # "OK" /\ Fails("key", Diagnose(a))
          \/ /\ Diagnose(a) = "OK"
             /\ \/ Visibility(a) # "OK" /\ Fails("model", Visibility(a))
                \/ Visibility(a) = "OK" /\ Passes("model", "OK", "context")
    /\ UNCHANGED <<args, front, server, stage, silent, stream>>

\* read_props and the comparison with the context that was pinned
CheckContext ==
    /\ pc = "context"
    /\ \E a \in Keyed(Answer(200, "props")) :
          IF a.body # "props" THEN Passes("context", "unknown", "slots")
          ELSE IF args.pinned /\ ~config.fits THEN Fails("context", "too much")
          ELSE Passes("context", "OK", "slots")
    /\ UNCHANGED <<args, front, server, stage, silent, stream>>

\* Informational: it never fails
CheckSlots ==
    /\ pc = "slots"
    /\ \E a \in Slots :
          Says("slots", CASE Diagnose(a) = "NO_CAPACITY" -> "busy"
                          [] Diagnose(a) = "NOT_ENABLED" -> "unknown"
                          [] OTHER -> "free")
    /\ UNCHANGED worst
    /\ IF args.inference THEN pc' = "completion" /\ UNCHANGED exit ELSE Ends
    /\ UNCHANGED <<args, front, server, stage, silent, stream>>

-----------------------------------------------------------------------------
(* The checks that generate: the request, and what is made of its end.     *)

\* Mutant of Worse: the last check decides.
WorseLast(f) == f # "OK"

Worse(f) == worst \/ f # "OK"

\* A model that does not call tools may still stream
Concludes(f) ==
    /\ Says(pc, f)
    /\ worst' = Worse(f)
    /\ \/ pc = "completion" /\ f = "OK" /\ args.agent /\ pc' = "tools" /\ UNCHANGED exit
       \/ pc = "completion" /\ (f # "OK" \/ ~args.agent) /\ Ends
       \/ pc = "tools" /\ pc' = "stream" /\ UNCHANGED exit
       \/ pc = "stream" /\ Ends
    /\ stage' = "unsent" /\ silent' = 0

\* With the connection the server gives the slot back
SlotReturned == free' = (free \/ stage = "running") /\ UNCHANGED <<state, config, changes>>

Generating == pc \in {"completion", "tools", "stream"}

\* A page that answers a stream, or JSON, has no frames
Send ==
    /\ Generating /\ stage = "unsent"
    /\ \/ /\ Refusals = {}
          /\ stage' = "queued"
          /\ UNCHANGED <<pc, silent, finding, worst, exit>>
       \/ \E a \in Refusals :
             Concludes(IF pc = "stream" /\ Diagnose(a) = "OK" THEN Judged(stream) ELSE Generated(a))
    /\ UNCHANGED <<args, front, server, stream>>

Reply(a) ==
    /\ pc \in {"completion", "tools"} /\ stage = "running"
    /\ Concludes(Generated(a))
    /\ SlotReturned
    /\ UNCHANGED <<args, front, stream>>

\* Mutant of Overdue: a server that has begun is left to finish.
OverdueInQueue == stage \in {"queued", "lost"} /\ silent = args.timeout

\* --inference-timeout, for each read
Overdue == stage \in {"queued", "running", "lost"} /\ silent = args.timeout

\* A TimeoutError, whatever was read before
TimeOut ==
    /\ Overdue
    /\ Concludes(Diagnose(Answer(0, "timeout")))
    /\ SlotReturned
    /\ UNCHANGED <<args, front, stream>>

\* The connection is closed before anything of the reply came
Closed ==
    /\ stage = "broken" /\ stream.lines = 0
    /\ \E a \in {Answer(0, "reset")} \union (IF front = "none" THEN {} ELSE ErrorPages) :
          Concludes(IF pc = "stream" /\ Diagnose(a) = "OK" THEN Judged(stream) ELSE Generated(a))
    /\ UNCHANGED <<args, front, server, stream>>

\* In the middle of a reply that does not stream: probe() catches no
\* IncompleteRead.
CutShort ==
    /\ stage = "broken" /\ pc \in {"completion", "tools"}
    /\ Goes("raised")
    /\ stage' = "unsent"
    /\ UNCHANGED <<args, front, server, silent, stream, finding, worst>>

-----------------------------------------------------------------------------
(* stream_probe.                                                           *)

Plus(a, b) == [frames |-> a.frames + b.frames, others |-> a.others + b.others]

\* Mutant of Keeps: it has no limit of time.
KeepsAnyTime(lines, elapsed) == lines < MaxLines

\* What collect returns: go on?
Keeps(lines, elapsed) == lines < MaxLines /\ elapsed < MaxSeconds

\* The stream after one more line
Collected(s, isFrame) ==
    LET n == [s EXCEPT !.lines = @ + 1]
    IN  IF ~isFrame THEN [n EXCEPT !.wire.others = @ - 1]
        ELSE [n EXCEPT !.wire.frames = @ - 1, !.frames = @ + 1,
                       !.first = IF s.frames = 0 THEN s.elapsed ELSE @, !.last = s.elapsed]

Collect(isFrame) ==
    /\ pc = "stream" /\ (IF isFrame THEN stream.wire.frames ELSE stream.wire.others) > 0
    /\ stream' = Collected(stream, isFrame)
    /\ \/ /\ Keeps(stream'.lines, stream'.elapsed)
          /\ silent' = 0
          /\ UNCHANGED <<server, pc, stage, finding, worst, exit>>
       \/ /\ ~Keeps(stream'.lines, stream'.elapsed)
          /\ Concludes(Judged(stream'))
          /\ SlotReturned
    /\ UNCHANGED <<args, front>>

\* A chunked reply that breaks off is taken for one that ends, unless the
\* connection was reset.
StreamEnds ==
    /\ pc = "stream"
    /\ \/ stage \in {"ended", "broken"} /\ stream.wire = NoLines /\ stream.lines > 0
          /\ Concludes(Judged(stream))
       \/ stage = "broken" /\ Concludes(Diagnose(Answer(0, "reset")))
    /\ UNCHANGED <<args, front, server, stream>>

-----------------------------------------------------------------------------
(* External: the server at work, the proxy, time.                          *)

\* A slot takes the request
Begin ==
    /\ stage = "queued" /\ state = "up" /\ free
    /\ stage' = "running" /\ free' = FALSE
    /\ \E n \in 1..MaxReply : stream' = IF pc = "stream" THEN [stream EXCEPT !.left = n] ELSE stream
    /\ UNCHANGED <<args, front, state, config, changes, pc, silent, finding, worst, exit>>

\* Lines on their way, up to a proxy that buffers
Sent(s, lines) ==
    IF front = "holds" THEN [s EXCEPT !.held = Plus(@, lines)]
    ELSE [s EXCEPT !.wire = Plus(@, lines)]

\* One step of generation
Emit ==
    /\ pc = "stream" /\ stage = "running" /\ stream.rest = 0
    /\ \E b \in 1..Burst :
          /\ b <= stream.left
          /\ stream' = [Sent(stream, [frames |-> b, others |-> 0])
                          EXCEPT !.made = @ + b, !.left = @ - b, !.rest = Gap]
    /\ UNCHANGED <<args, front, server, pc, stage, silent, finding, worst, exit>>

Ping ==
    /\ pc = "stream" /\ stage \in {"queued", "running"} /\ ~stream.pinged
    /\ stream' = [Sent(stream, [frames |-> 0, others |-> 1]) EXCEPT !.pinged = TRUE]
    /\ UNCHANGED <<args, front, server, pc, stage, silent, finding, worst, exit>>

\* A proxy that holds the reply releases it
LastLine ==
    /\ pc = "stream" /\ stage = "running" /\ stream.left = 0
    /\ stage' = "ended"
    /\ stream' = [stream EXCEPT !.wire = Plus(@, stream.held), !.held = NoLines, !.rest = 0]
    /\ SlotReturned
    /\ UNCHANGED <<args, front, pc, silent, finding, worst, exit>>

\* Only while the check waits
Tick ==
    /\ stage \in {"queued", "running", "lost"} /\ stream.wire = NoLines
    /\ silent < args.timeout
    /\ silent' = silent + 1
    /\ stream' = IF pc # "stream" THEN stream
                 ELSE [stream EXCEPT !.elapsed = @ + 1, !.rest = IF @ = 0 THEN 0 ELSE @ - 1,
                                     !.pinged = FALSE]
    /\ UNCHANGED <<args, front, server, pc, stage, finding, worst, exit>>

Changed == changes < MaxChanges /\ changes' = changes + 1 /\ pc # "done"

\* What a proxy still held is lost
Stop ==
    /\ Changed /\ stage \in {"unsent", "queued", "running"} /\ state # "down"
    /\ state' = "down" /\ free' = TRUE
    /\ IF stage \in {"queued", "running"}
       THEN stage' \in {"broken", "lost"} /\ stream' = [stream EXCEPT !.held = NoLines, !.left = 0, !.rest = 0]
       ELSE UNCHANGED <<stage, stream>>
    /\ UNCHANGED <<args, front, config, pc, silent, finding, worst, exit>>

\* Between two requests: one that was lost knows of no new server.
Launch ==
    /\ Changed /\ stage = "unsent" /\ state = "down"
    /\ state' = "loading" /\ config' \in Configs
    /\ UNCHANGED <<args, front, free, pc, stage, silent, stream, finding, worst, exit>>

Loaded ==
    /\ Changed /\ stage = "unsent" /\ state = "loading"
    /\ state' = "up"
    /\ UNCHANGED <<args, front, config, free, pc, stage, silent, stream, finding, worst, exit>>

\* The other laptops.  Whether a slot is free matters to the check until it has
\* one.
Others ==
    /\ pc # "done" /\ stage \in {"unsent", "queued"}
    /\ free' = ~free
    /\ UNCHANGED <<args, front, state, config, changes, pc, stage, silent, stream, finding, worst, exit>>

Doctor ==
    \/ CheckHealth \/ CheckKeyAndModel \/ CheckContext \/ CheckSlots
    \/ Send \/ TimeOut \/ Closed \/ CutShort
    \/ \E isFrame \in BOOLEAN : Collect(isFrame)
    \/ StreamEnds

Outside ==
    \/ \E a \in Replies : Reply(a)
    \/ Begin \/ Emit \/ Ping \/ LastLine
    \/ Stop \/ Launch \/ Loaded \/ Others

Next == Doctor \/ Outside \/ Tick

Spec == Init /\ [][Next]_vars

\* The check runs and time passes.  Nothing is asked of the server.
LiveSpec == Spec /\ WF_vars(Doctor) /\ WF_vars(Tick)

-----------------------------------------------------------------------------
(* Properties.                                                             *)

\* What each check may say
Found(c) ==
    CASE c = "none" -> {"OK"}
      [] c = "model" -> {"OK", "BAD_ENDPOINT", "MODEL_NOT_FOUND", "ALIAS_NOT_CLAUDE_COMPATIBLE"}
      [] c = "context" -> {"OK", "unknown", "too much"}
      [] c = "slots" -> {"free", "busy", "unknown"}
      [] c = "stream" -> {"OK", "UNREACHABLE", "LOADING", "UNAUTHORISED", "BAD_ENDPOINT",
                          "SERVER_ERROR", "STREAM_UNSUPPORTED", "STREAM_BUFFERED"}
      [] OTHER -> {"OK", "UNREACHABLE", "LOADING", "UNAUTHORISED", "BAD_ENDPOINT", "NOT_ENABLED",
                   "SERVER_ERROR", "TOOLS_IGNORED", "TOOLS_MALFORMED"}

\* The variables have the values their comments say: no check is judged by an
\* outcome of another, the counts of a stream do not go below zero, and no
\* more lines are read than collect allows.
TypeOK ==
    /\ args \in Requests /\ front \in Fronts
    /\ state \in {"down", "loading", "up"} /\ config \in Configs /\ free \in BOOLEAN
    /\ changes \in 0..MaxChanges
    /\ pc \in Checks \union {"done"}
    /\ stage \in {"unsent", "queued", "running", "ended", "broken", "lost"}
    /\ silent \in 0..args.timeout
    /\ stream \in StreamType
    /\ stream.lines <= MaxLines /\ stream.frames <= stream.made
    /\ stream.first <= stream.last /\ stream.last <= stream.elapsed
    /\ finding.check \in Checks \union {"none"} /\ finding.outcome \in Found(finding.check)
    /\ worst \in BOOLEAN
    /\ exit \in {"running", "passed", "failed", "raised"}

\* "a check that a user runs after `join` must not be able to sit there until
\* the model runs out of things to say" (stream_probe): pings and text keep it
\* waiting for no longer than both limits together, line by line: a line is read
\* in one piece.
NotForever == stream.elapsed <= MaxSeconds + args.timeout

\* A stream that nothing buffers is never called buffered: not a short one, not
\* one that breaks off, not one cut by a limit, whatever pings come with it.
StreamNotBlamed ==
    finding = Finding("stream", "STREAM_BUFFERED") => front = "holds"

SentLines == stream.lines + stream.wire.frames + stream.wire.others
                + stream.held.frames + stream.held.others

\* A reply with enough text to judge, withheld to its end, never passes. The
\* time limit must be the longer one (a reply that is released after it shows
\* one line), and the limit on lines must not be met by pings.
HeldIsCaught ==
    front = "holds" /\ args.timeout < MaxSeconds /\ stream.made >= MinFrames /\ SentLines < MaxLines =>
        finding # Finding("stream", "OK")

\* What an agent needs of the server
Works ==
    /\ state = "up" /\ config.key
    /\ config.alias \in (IF args.api = "anthropic" THEN {"claude"} ELSE {"same", "claude"})
    /\ args.pinned => config.fits
    /\ config.model = "calls" /\ config.jinja

\* All checks pass only if an agent works with this server, unless the server
\* changed on the way; what the stream is worth is in HeldIsCaught.
PassMeansUsable ==
    exit = "passed" /\ changes = 0 /\ args.inference /\ args.agent => Works /\ front # "page"

\* No llama-server answers
Absent == state = "down" \/ stage = "broken"

\* But something in its place
Elsewhere == front = "page" \/ (front # "none" /\ Absent)

Cause(f) ==
    CASE f = "UNREACHABLE" -> Absent \/ silent = args.timeout
      [] f = "LOADING" -> state = "loading"
      [] f = "UNAUTHORISED" -> ~config.key
      [] f = "NOT_ENABLED" -> pc = "tools" /\ ~config.jinja
      [] f = "SERVER_ERROR" -> Elsewhere \/ config.model = "broken"
      [] f = "BAD_ENDPOINT" -> Elsewhere
      [] f = "MODEL_NOT_FOUND" -> config.alias \in {"none", "other"}
      [] f = "ALIAS_NOT_CLAUDE_COMPATIBLE" -> args.api = "anthropic" /\ config.alias = "same"
      [] f = "too much" -> args.pinned /\ ~config.fits
      [] f = "TOOLS_IGNORED" -> Elsewhere \/ config.model = "prose"
      [] f = "TOOLS_MALFORMED" -> config.model = "broken" /\ args.api = "openai"
      [] OTHER -> TRUE

\* "Map one observation to one cause" (diagnose): when a check names a cause, it
\* is there at that moment, although the server changes between the requests
\* and answers two of them alike.  Two observations stand for more than one
\* cause: JSON without a tool call, which is the model's or a proxy's, and a
\* reply with nothing in it.
BlamesACause ==
    [][finding' # finding => Cause(finding'.outcome) \/ Reply(Empty)]_vars

Limited(s) == s.frames = 0 /\ (s.elapsed >= MaxSeconds \/ s.lines = MaxLines)

\* While an agent would work, a check fails for nothing but waiting (a read that
\* took too long, or a limit that was met before any text came) and a reply with
\* nothing in it.
UsableMeansPass ==
    [][worst' /\ ~worst /\ Works /\ front = "none" /\ stage # "broken" =>
          \/ silent = args.timeout \/ Reply(Empty)
          \/ finding' = Finding("stream", "STREAM_UNSUPPORTED") /\ Limited(stream')]_vars

\* The check ends, also if the server never answers.
CheckEnds == <>(pc = "done")
=============================================================================
