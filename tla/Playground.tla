----------------------------- MODULE Playground ------------------------------
(***************************************************************************)
(* The playground's chat: web/src/features/playground/hooks,               *)
(* use-chat-handler.ts over use-stream-request.ts.                         *)
(*                                                                         *)
(* A message of the user starts a generation: rounds of requests, streamed *)
(* or not, with the model's tool calls between them, one silent retry and  *)
(* one forced answer.  Everything that is awaited (the headers, the        *)
(* stream's events, the answer, the tools, the flush timer) comes back     *)
(* later, perhaps after the user has stopped it or asked anew.             *)
(*                                                                         *)
(* A try is one request, numbered in order.  Text is the set of the tries  *)
(* it came from.  The generation of the stream controller is compared for  *)
(* equality only, so `owner` is the try whose send() it still is.  An      *)
(* AbortController is aborted exactly when abortControllerRef is given to  *)
(* another one, so a try's is alive while controller = the try.  React     *)
(* runs the updater of a message at once, or later: where the generation   *)
(* moves on in the same callback, both are allowed.                        *)
(***************************************************************************)
EXTENDS Integers

CONSTANTS
    Modes,          \* what config.stream may be: the user may change it between rounds
    MaxToolRounds,  \* MAX_TOOL_ROUNDS
    MaxGen,         \* bound: generations, one per message sent or stopped
    MaxTries        \* bound: requests

ASSUME PlaygroundAssumption ==
    /\ Modes \subseteq {"stream", "fetch"} /\ Modes # {}
    /\ MaxToolRounds \in Nat /\ MaxGen \in Nat /\ MaxTries \in Nat

Tries == 1..MaxTries
None  == 0

VARIABLES
    gen,         \* requestGenerationRef
    act,         \* per try: where it is, its generation and its round
    tries,       \* the number of tries so far
    owner,       \* stream controller: generation
    source,      \* stream controller: source
    streaming,   \* isStreaming
    requesting,  \* isRequesting
    controller,  \* abortControllerRef
    transcript,  \* transcriptRef is not null
    roundText,   \* roundStateRef.content
    roundTools,  \* roundStateRef.toolCalls is not empty
    produced,    \* producedTextRef
    forced,      \* forcedAnswerRoundRef
    retried,     \* fallbackStateRef.retriedCurrent
    pending,     \* pendingStreamChunksRef
    timer,       \* streamFlushTimerRef
    msg,         \* the last assistant message: its status, text and generation
    quiet,       \* history: an unstreamed round of this generation failed and was retried
    mounted

stream == <<owner, source, streaming>>
refs   == <<transcript, roundText, roundTools, produced, forced, retried>>
vars   == <<gen, act, tries, owner, source, streaming, requesting, controller, transcript, roundText,
            roundTools, produced, forced, retried, pending, timer, msg, quiet, mounted>>

Idle     == [at |-> "none", gen |-> 0, round |-> 0]
InFlight == {"headers", "open", "fetch", "tools"}
NoMessage == [status |-> "none", text |-> {}, gen |-> 0]
Pending  == {"loading", "streaming"}

Init ==
    /\ gen = 0 /\ tries = 0 /\ act = [n \in Tries |-> Idle]
    /\ owner = None /\ source = None /\ streaming = FALSE
    /\ requesting = FALSE /\ controller = None
    /\ transcript = FALSE /\ roundText = {} /\ roundTools = FALSE
    /\ produced = FALSE /\ forced = FALSE /\ retried = FALSE
    /\ pending = {} /\ timer = FALSE
    /\ msg = NoMessage /\ quiet = FALSE /\ mounted = TRUE

IsGenerating == streaming \/ requesting
-----------------------------------------------------------------------------
(***************************************************************************)
(* The pieces that the handlers share.                                     *)
(***************************************************************************)
(* applyStreamingChunk: an error stays. *)
WithText(m, text) ==
    IF text = {} \/ m.status = "error" THEN m
    ELSE [m EXCEPT !.status = "streaming", !.text = @ \union text]

(* flushStreamUpdates: the message with the text that was waiting. *)
Flushed == WithText(msg, pending)

(* Mutant: a message that never got any text stays as it is. *)
MutCompleted(m) == IF m.status = "streaming" THEN [m EXCEPT !.status = "complete"] ELSE m

Completed(m) == IF m.status \in {"complete", "error"} THEN m ELSE [m EXCEPT !.status = "complete"]

Flush == pending' = {} /\ timer' = FALSE

(* try n and whatever the controller had open are over. *)
Ended(n) == [m \in Tries |-> IF m \in {n, source} THEN [act[m] EXCEPT !.at = "none"] ELSE act[m]]

StreamOver(n) ==
    /\ source' = IF source = n THEN None ELSE source
    /\ streaming' = IF source = n THEN FALSE ELSE streaming

(***************************************************************************)
(* startRoundRef.current(g, r), called while try n ends.  A streamed round *)
(* enters send(): it takes the controller over, closes the source and      *)
(* waits for the headers.  An unstreamed round aborts the controller in    *)
(* abortControllerRef and installs its own.                                *)
(***************************************************************************)
StartRound(n, g, r) ==
    \E mode \in Modes :
        LET new == tries + 1 IN
        /\ new \in Tries
        /\ tries' = new
        /\ IF mode = "stream"
           THEN /\ act' = [Ended(n) EXCEPT ![new] = [at |-> "headers", gen |-> g, round |-> r]]
                /\ owner' = new /\ source' = None /\ streaming' = FALSE
                /\ controller' = IF controller = n THEN None ELSE controller
           ELSE /\ act' = [act EXCEPT ![n].at = "none", ![new] = [at |-> "fetch", gen |-> g, round |-> r]]
                /\ StreamOver(n) /\ UNCHANGED owner
                /\ controller' = new

(* Mutant: the source is forgotten, and not closed. *)
MutNoRound(n) ==
    /\ StreamOver(n)
    /\ controller' = IF controller = n THEN None ELSE controller
    /\ UNCHANGED <<act, tries, owner>>

(* The try ends and none follows. *)
NoRound(n) ==
    /\ act' = [act EXCEPT ![n].at = "none"]
    /\ StreamOver(n)
    /\ controller' = IF controller = n THEN None ELSE controller
    /\ UNCHANGED <<tries, owner>>

(* Mutant: the retry is not remembered. *)
MutMayRetry == TRUE

(* pickFallbackModel: the model in use, once. *)
MayRetry == ~retried

(* retryWithFallbackModel drops the tool calls of the round, and nothing else. *)
Retry(n) ==
    /\ MayRetry
    /\ retried' = TRUE /\ roundTools' = FALSE
    /\ StartRound(n, act[n].gen, act[n].round)
    /\ UNCHANGED <<transcript, roundText, produced, forced>>

(* forceFinalAnswerRound *)
ForceAnswer(n, text) ==
    /\ forced' = TRUE /\ roundText' = {} /\ roundTools' = FALSE
    /\ StartRound(n, act[n].gen, act[n].round + 1)
    /\ produced' = (produced \/ text # {})
    /\ UNCHANGED <<transcript, retried>>

(* runToolCalls, up to its first await. *)
RunTools(n) ==
    /\ act' = [act EXCEPT ![n].at = "tools"]
    /\ controller' = n
    /\ roundText' = {} /\ roundTools' = FALSE
    /\ UNCHANGED <<tries, transcript, forced, retried>>

(* Mutant: no limit to the tool rounds. *)
MutToolsNext(n, tools) == tools /\ ~forced

(* What a finished round of try n, with this text and these tool calls, leads to. *)
ToolsNext(n, tools) == tools /\ act[n].round < MaxToolRounds /\ ~forced
ForceNext(n, text, tools) ==
    ~ToolsNext(n, tools) /\ (tools \/ text = {}) /\ ~forced /\ (produced \/ text # {} \/ tools)
RetryNext(n, text, tools) ==
    ~ToolsNext(n, tools) /\ ~ForceNext(n, text, tools) /\ text = {} /\ ~produced /\ MayRetry
Finished(n, text, tools) ==
    ~ToolsNext(n, tools) /\ ~ForceNext(n, text, tools) /\ ~RetryNext(n, text, tools)
-----------------------------------------------------------------------------
(***************************************************************************)
(* The user.                                                               *)
(***************************************************************************)
(* The bound on tries leaves room for every round, the retry and the forced answer. *)
RoomForAll == tries + MaxToolRounds + 3 <= MaxTries

(* sendChat, for a new message or a regenerated one; the input and the message actions are disabled *)
(* while something is generating. *)
Send ==
    /\ mounted /\ ~IsGenerating /\ gen < MaxGen /\ RoomForAll
    /\ gen' = gen + 1
    /\ Flush
    /\ transcript' = TRUE /\ roundText' = {} /\ roundTools' = FALSE
    /\ produced' = FALSE /\ forced' = FALSE /\ retried' = FALSE
    /\ requesting' = TRUE /\ quiet' = FALSE
    /\ msg' = [status |-> "loading", text |-> {}, gen |-> gen + 1]
    /\ \E mode \in Modes :
          LET new == tries + 1
              at  == IF mode = "stream" THEN "headers" ELSE "fetch"
          IN  /\ new \in Tries
              /\ tries' = new
              /\ act' = [Ended(source) EXCEPT ![new] = [at |-> at, gen |-> gen + 1, round |-> 0]]
              /\ source' = None /\ streaming' = FALSE
              /\ owner' = IF mode = "stream" THEN new ELSE None
              /\ controller' = IF mode = "stream" THEN None ELSE new
    /\ UNCHANGED mounted

(* stopGeneration: React may run the updater of its flush after the generation has moved on. *)
StopGeneration(clear) ==
    /\ gen' = gen + 1
    /\ Flush
    /\ transcript' = FALSE /\ roundText' = {} /\ roundTools' = FALSE
    /\ act' = Ended(source)
    /\ owner' = None /\ source' = None /\ streaming' = FALSE
    /\ controller' = None /\ requesting' = FALSE
    /\ \E m \in {Flushed, msg} :
          msg' = IF clear THEN NoMessage ELSE IF m.status \in Pending THEN Completed(m) ELSE m
    /\ UNCHANGED <<tries, produced, forced, retried, quiet, mounted>>

Stop    == mounted /\ IsGenerating /\ gen < MaxGen /\ StopGeneration(FALSE)
NewChat == mounted /\ gen < MaxGen /\ StopGeneration(TRUE)

(* The cleanups of both hooks. *)
Unmount ==
    /\ mounted /\ mounted' = FALSE
    /\ gen' = gen + 1
    /\ timer' = FALSE
    /\ act' = Ended(source)
    /\ owner' = None /\ source' = None /\ controller' = None
    /\ UNCHANGED <<tries, streaming, requesting, refs, pending, msg, quiet>>
-----------------------------------------------------------------------------
(***************************************************************************)
(* The stream: send() and the listeners of its source.                     *)
(***************************************************************************)
(* Mutant: the answer of getFreshAuthHeaders is used without a second look. *)
MutOwns(n) == TRUE

Owns(n) == owner = n

(* A source that is not the controller's reports nothing any more. *)
Current(n) == act[n].at = "open" /\ owner = n /\ source = n /\ act[n].gen = gen

GotHeaders(n) ==
    /\ act[n].at = "headers"
    /\ IF Owns(n)
       THEN /\ act' = [act EXCEPT ![n].at = "open"]
            /\ source' = n /\ streaming' = TRUE
       ELSE act' = [act EXCEPT ![n].at = "none"] /\ UNCHANGED <<source, streaming>>
    /\ UNCHANGED <<gen, tries, owner, requesting, controller, refs, pending, timer, msg, quiet, mounted>>

(* handleStreamUpdate: reasoning is shown, content also belongs to the round. *)
Chunk(n, type) ==
    /\ Current(n)
    /\ pending' = pending \union {n} /\ timer' = TRUE
    /\ roundText' = IF type = "content" THEN roundText \union {n} ELSE roundText
    /\ produced' = (produced \/ type = "content")
    /\ UNCHANGED <<gen, act, tries, stream, requesting, controller, transcript, roundTools, forced, retried,
                   msg, quiet, mounted>>

(* handleToolCallDelta *)
ToolCallDelta(n) ==
    /\ Current(n)
    /\ roundTools' = TRUE
    /\ UNCHANGED <<gen, act, tries, stream, requesting, controller, transcript, roundText, produced, forced,
                   retried, pending, timer, msg, quiet, mounted>>

FlushTimer ==
    /\ timer
    /\ Flush
    /\ msg' = WithText(msg, pending)
    /\ UNCHANGED <<gen, act, tries, stream, requesting, controller, refs, quiet, mounted>>

(* [DONE]: the source is closed, then handleStreamComplete. *)
StreamComplete(n) ==
    /\ Current(n)
    /\ Flush
    /\ \/ /\ ToolsNext(n, roundTools)
          /\ RunTools(n) /\ StreamOver(n)
          /\ msg' = Flushed
          /\ UNCHANGED <<owner, produced, requesting>>
       \/ /\ ForceNext(n, roundText, roundTools)
          /\ ForceAnswer(n, {})
          /\ msg' = Flushed
          /\ UNCHANGED requesting
       \/ /\ RetryNext(n, roundText, roundTools)
          /\ Retry(n)
          /\ msg' = Flushed
          /\ UNCHANGED requesting
       \/ /\ Finished(n, roundText, roundTools)
          /\ NoRound(n)
          /\ requesting' = FALSE
          /\ msg' = Completed(Flushed)
          /\ UNCHANGED refs
    /\ UNCHANGED <<gen, quiet, mounted>>

(* handleStreamError, for try n: a silent retry, or the error is shown. *)
StreamError(n) ==
    /\ Flush
    /\ IF MayRetry
       THEN Retry(n) /\ msg' = Flushed /\ UNCHANGED requesting
       ELSE /\ NoRound(n)
            /\ requesting' = FALSE
            /\ msg' = [msg EXCEPT !.status = "error", !.text = {}]
            /\ UNCHANGED refs
    /\ UNCHANGED <<gen, quiet, mounted>>

(* What a source reports: a connection that cannot be made or breaks, a status other than 200, an event *)
(* that cannot be parsed. *)
StreamFails(n) == Current(n) /\ StreamError(n)

(* What it does not report: a response of status 200 that ends without [DONE].  The `error` event of a   *)
(* closed source and its readystatechange are both ignored; neither callback is called, and the source   *)
(* stays the controller's. *)
StreamCloses(n) ==
    /\ Current(n)
    /\ act' = [act EXCEPT ![n].at = "closed"]
    /\ UNCHANGED <<gen, tries, stream, requesting, controller, refs, pending, timer, msg, quiet, mounted>>

NoHeaders(n) ==
    /\ act[n].at = "headers"
    /\ IF owner = n THEN StreamError(n)
       ELSE /\ act' = [act EXCEPT ![n].at = "none"]
            /\ UNCHANGED <<gen, tries, stream, requesting, controller, refs, pending, timer, msg, quiet, mounted>>
-----------------------------------------------------------------------------
(***************************************************************************)
(* Unstreamed rounds, and the tools.                                       *)
(***************************************************************************)
(* Mutant: what comes back is used whoever it is for. *)
MutAlive(n) == TRUE

(* The generation is still this one, and the AbortController is not aborted. *)
Alive(n) == act[n].gen = gen /\ controller = n

(* The answer to an unstreamed round, with or without text and tool calls. *)
Response(n, text, tools) ==
    /\ act[n].at = "fetch" /\ Alive(n)
    /\ \/ /\ ToolsNext(n, tools)
          /\ RunTools(n)
          /\ produced' = (produced \/ text # {})
          /\ msg' = WithText(msg, text)
          /\ UNCHANGED <<stream, requesting>>
       \/ /\ ForceNext(n, text, tools)
          /\ ForceAnswer(n, text)
          /\ UNCHANGED <<msg, requesting>>
       \/ /\ RetryNext(n, text, tools)
          /\ Retry(n)
          /\ UNCHANGED <<msg, requesting>>
       \/ /\ Finished(n, text, tools)
          /\ NoRound(n)
          /\ requesting' = FALSE
          /\ msg' = [msg EXCEPT !.status = "complete", !.text = text]
          /\ produced' = (produced \/ text # {})
          /\ UNCHANGED <<transcript, roundText, roundTools, forced, retried>>
    /\ UNCHANGED <<gen, pending, timer, quiet, mounted>>

(* No choice in the answer, or an error.  `continued` is not set by the retry: the finally block *)
(* takes isRequesting back. *)
FetchFails(n) ==
    /\ act[n].at = "fetch" /\ Alive(n)
    /\ Flush
    /\ requesting' = FALSE
    /\ IF MayRetry
       THEN Retry(n) /\ msg' = Flushed /\ quiet' = TRUE
       ELSE /\ NoRound(n)
            /\ msg' = [msg EXCEPT !.status = "error", !.text = {}]
            /\ UNCHANGED <<refs, quiet>>
    /\ UNCHANGED <<gen, mounted>>

(* All the tools of the round have run, or failed: the next round. *)
ToolsDone(n) ==
    /\ act[n].at = "tools" /\ Alive(n)
    /\ StartRound(n, act[n].gen, act[n].round + 1)
    /\ UNCHANGED <<gen, requesting, refs, pending, timer, msg, quiet, mounted>>

(* What comes back for a generation that is over. *)
TooLate(n) ==
    /\ act[n].at \in {"fetch", "tools"} /\ ~Alive(n)
    /\ act' = [act EXCEPT ![n].at = "none"]
    /\ UNCHANGED <<gen, tries, stream, requesting, controller, refs, pending, timer, msg, quiet, mounted>>
-----------------------------------------------------------------------------
Next ==
    \/ Send \/ Stop \/ NewChat \/ Unmount \/ FlushTimer
    \/ \E n \in Tries :
          \/ GotHeaders(n) \/ NoHeaders(n)
          \/ \E type \in {"reasoning", "content"} : Chunk(n, type)
          \/ ToolCallDelta(n) \/ StreamComplete(n) \/ StreamFails(n) \/ StreamCloses(n)
          \/ \E text \in {{}, {n}}, tools \in BOOLEAN : Response(n, text, tools)
          \/ FetchFails(n) \/ ToolsDone(n) \/ TooLate(n)

(* The headers, the end of a stream, told or not, an answer and the tools come at last, and a timer fires. *)
Fairness ==
    /\ WF_vars(FlushTimer)
    /\ \A n \in Tries :
          /\ WF_vars(GotHeaders(n) \/ NoHeaders(n) \/ StreamComplete(n) \/ StreamFails(n) \/ StreamCloses(n))
          /\ WF_vars((\E text \in {{}, {n}}, tools \in BOOLEAN : Response(n, text, tools))
                     \/ FetchFails(n) \/ ToolsDone(n) \/ TooLate(n))

Spec == Init /\ [][Next]_vars /\ Fairness
-----------------------------------------------------------------------------
(***************************************************************************)
(* Properties.                                                             *)
(***************************************************************************)
Working == \E n \in Tries : act[n].gen = gen /\ act[n].at \in InFlight

(* The connection of the controller's source is gone, and nobody was told. *)
ClosedSilently == source # None /\ act[source].at = "closed"

(* The types of the hooks' refs and states. *)
TypeOK ==
    /\ gen \in 0..MaxGen + 1 /\ tries \in 0..MaxTries
    /\ act \in [Tries -> [at : InFlight \union {"none", "closed"}, gen : 0..MaxGen + 1, round : 0..MaxToolRounds + 1]]
    /\ {owner, source, controller} \subseteq Tries \union {None}
    /\ {streaming, requesting, transcript, roundTools, produced, forced, retried, timer, quiet, mounted}
          \subseteq BOOLEAN
    /\ roundText \subseteq Tries /\ pending \subseteq Tries
    /\ msg \in [status : Pending \union {"none", "complete", "error"}, text : SUBSET Tries, gen : 0..MaxGen]

(* No stream is left open behind the controller's back: whatever overtakes  *)
(* the wait for the headers, the one open source is the one that Stop and   *)
(* the next request close.                                                  *)
NoLeakedStream == \A n \in Tries : act[n].at = "open" => source = n

(* The message shows text of its own generation only: what a stopped or     *)
(* replaced request still brings back never lands in a later message.       *)
OwnText == \A n \in msg.text : act[n].gen = msg.gen

(* The message does not stay "loading" or "streaming" when nothing is under *)
(* way any more: every callback completes it, shows an error or goes on,    *)
(* and no late flush sets it back to "streaming".  The one way out without  *)
(* a callback is a stream that closed without [DONE]; then the message does *)
(* wait for nothing, but the interface still offers Stop, which ends it.    *)
NoEndlessSpinner ==
    mounted /\ msg.status \in Pending => Working \/ (ClosedSilently /\ IsGenerating)

(* While the generation works, the interface says so, unless an unstreamed  *)
(* round of it has been retried silently.                                   *)
BusyUnlessQuiet == mounted /\ Working /\ ~quiet => IsGenerating

(* The guard of the message actions: it "checks if generation is active     *)
(* before executing" (use-message-action-guard.ts).                         *)
BusyWhileWorking == mounted /\ Working => IsGenerating

(* The round's accumulator holds "the text and tool calls streamed in the   *)
(* current request" (use-chat-handler.ts).                                  *)
RoundIsOfOneRequest == \A m \in roundText, n \in Tries : act[n].at = "open" => m = n

(* The work on a generation ends: the tool rounds, the retry and the forced *)
(* answer are bounded, and no wait but one is forgotten.  The message is    *)
(* then complete or shows an error, unless the page was left or the stream  *)
(* closed without [DONE].                                                   *)
GenerationEnds ==
    Working ~> ~Working /\ (msg.status \notin Pending \/ ClosedSilently \/ ~mounted)
=============================================================================
