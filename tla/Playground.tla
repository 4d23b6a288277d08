----------------------------- MODULE Playground -----------------------------
(***************************************************************************)
(* The chat playground of the web front end                                *)
(* (web/default/src/features/playground): the conversation, the requests   *)
(* that answer it as a stream of chunks or in one piece, the buffer in     *)
(* which chunks wait for the next repaint, and the copy kept in            *)
(* localStorage.                                                           *)
(*                                                                         *)
(* The browser runs one callback at a time: an action is one user event,   *)
(* one event of a request or one timer, with everything the handler calls. *)
(* Network, timers and the user decide the order.  A text is a sequence of *)
(* letters, each of which stands for a stretch of text such as a line; what*)
(* an upstream adds may well begin with what it said before.  Reasoning    *)
(* text, which is buffered and merged in the same way and cut out of the   *)
(* answer between <think> tags, the limits in bytes and characters of what *)
(* is stored and loaded, and timings are left out.                         *)
(***************************************************************************)
EXTENDS Integers, SequencesExt

CONSTANTS
    MaxRequests,   \* bound: chat requests
    Delta,         \* what an upstream may add to its answer at a time
    Heading,       \* the letters that are numbered section headings
    MinCollapse,   \* MIN_PREFIX_COLLAPSE_LENGTH
    MaxText,       \* bound: letters of all streams, by how often the page was left
    MaxStored,     \* MAX_STORED_MESSAGES
    MaxMounts,     \* bound: times the page is left or loaded again
    EditMounts,    \* bound: how often that may have happened when an editor is opened
    Editable,      \* bound: the keys of the messages that are edited
    Kind           \* what a chunk of a request's stream holds: what is new, or the text so far

ASSUME BoundAssumption ==
    /\ MaxRequests \in Nat /\ MaxStored \in Nat \ {0} /\ MinCollapse \in Nat
    /\ MaxMounts \in Nat /\ EditMounts \in Nat /\ MaxText \in [0..MaxMounts -> Nat]
ASSUME TextAssumption == \A d \in Delta : d \in Seq(Nat \ {0}) /\ d # <<>>
ASSUME KindAssumption == Kind \in [1..MaxRequests -> {"delta", "snapshot"}]

VARIABLES
    messages,
    stage,        \* of a request: "none", "open", "aborted", "left" or "ended"
    stream,       \* whether it is streamed
    said,         \* what its upstream has said so far
    source,       \* sseSourceRef; 0 is null
    isStreaming,
    isRequesting,
    requestId,    \* requestIdRef
    controller,   \* abortControllerRef; 0 is null
    buffer,       \* pendingStreamChunksRef
    flushTimer,   \* streamFlushTimerRef
    editing,      \* editingMessageKey
    saveTimer,    \* messagesSaveTimerRef
    stored,       \* localStorage
    mounts,
    left,         \* the conversation of the page that was left with this request under way
    waiting,      \* its pendingStreamChunksRef
    late,         \* history: such a page was the last to write to localStorage
    overlapped,   \* history: a request was sent while another was under way
    mistaken      \* history: requests with something new that was taken for the text so far

requests == <<stage, stream, said>>
refs     == <<source, requestId, controller>>
buffers  == <<buffer, flushTimer, mistaken>>
kept     == <<stored, mounts, left, waiting, late>>
storage  == <<saveTimer, kept>>
vars     == <<messages, requests, refs, isStreaming, isRequesting, buffers, editing, storage,
              overlapped>>

Request == 1..MaxRequests
Generating == isStreaming \/ isRequesting

-----------------------------------------------------------------------------
(* Texts *)

\* What the user wrote over a message, and an error message.
Edited    == <<0>>
ErrorText == <<0, 0>>

\* The chunk that brings d: what is new, or the text so far.
Chunk(r, d) == IF Kind[r] = "delta" THEN d ELSE said[r] \o d

\* mergePendingStreamChunk: a chunk that starts with what is pending replaces it.
AppendPending(current, next) == current \o next
mergePendingStreamChunk(current, next) ==
    IF current # <<>> /\ IsPrefix(current, next) THEN next ELSE current \o next

\* getAppendableChunk: of a chunk that starts with the text, only the rest is new.
getAppendableChunk(current, chunk) ==
    IF current # <<>> /\ IsPrefix(current, chunk)
    THEN SubSeq(chunk, Len(current) + 1, Len(chunk)) ELSE chunk

\* Both take what is new for the text so far when it begins with what is there.
Mistaken(r, current, chunk) ==
    IF Kind[r] = "delta" /\ current # <<>> /\ IsPrefix(current, chunk) THEN {r} ELSE {}

\* collapseRepeatedSectionSnapshots: the headings that occur a third time; a long text with
\* one is cut down to where the last run of sections starts.
Repeated(t) ==
    {k \in 1..Len(t) : t[k] \in Heading /\ \E i, j \in 1..k-1 : i < j /\ t[i] = t[k] /\ t[j] = t[k]}
RunStarts(t) == {k \in Repeated(t) : \A l \in k+1..Len(t) : t[l] # t[k]}
collapseRepeatedSectionSnapshots(t) ==
    IF Len(t) < MinCollapse \/ Repeated(t) = {} THEN t ELSE SubSeq(t, Min(RunStarts(t)), Len(t))

-----------------------------------------------------------------------------
(* Messages *)

User(r)      == [from |-> "user", key |-> r, status |-> "complete", text |-> <<r>>]
Loading(r)   == [from |-> "assistant", key |-> r, status |-> "loading", text |-> <<>>]
IsPending(m) == m.from = "assistant" /\ m.status \in {"loading", "streaming"}

applyStreamingChunk(m, chunk) ==
    IF m.status = "error" THEN m
    ELSE [m EXCEPT !.text = @ \o getAppendableChunk(@, chunk), !.status = "streaming"]

completeAssistantMessage(m) == [m EXCEPT !.status = "complete"]
CompleteIfPending(m) == IF IsPending(m) THEN completeAssistantMessage(m) ELSE m
WithAnswer(m, d) == [m EXCEPT !.text = d, !.status = "complete"]
WithError(m) == [m EXCEPT !.text = ErrorText, !.status = "error"]

\* updateLastAssistantMessage, with m for the last message: nothing changes unless that is
\* an answer.
updateLastAssistantMessage(ms, m) ==
    IF ms # <<>> /\ Last(ms).from = "assistant" THEN [ms EXCEPT ![Len(ms)] = m] ELSE ms

\* The messages once flushStreamUpdates has applied what is pending.
Flushed ==
    IF buffer = <<>> THEN messages
    ELSE updateLastAssistantMessage(messages, applyStreamingChunk(Last(messages), buffer))
FlushMistakes(ms, pending) ==
    IF ms # <<>> /\ Last(ms).from = "assistant" THEN Mistaken(Last(ms).key, Last(ms).text, pending)
    ELSE {}

\* updateMessages: the new state, which is saved half a second after the last change.
updateMessages(ms) == messages' = ms /\ saveTimer' = TRUE

\* flushStreamUpdates, and then m for the last answer.
FlushAnd(m) ==
    /\ buffer' = <<>> /\ flushTimer' = FALSE
    /\ mistaken' = mistaken \union FlushMistakes(messages, buffer)
    /\ updateMessages(updateLastAssistantMessage(Flushed, m))

trimMessagesLate(ms) ==
    IF Len(ms) > MaxStored + 1 THEN SubSeq(ms, Len(ms) - MaxStored, Len(ms)) ELSE ms
trimMessages(ms) ==
    IF Len(ms) > MaxStored THEN SubSeq(ms, Len(ms) - MaxStored + 1, Len(ms)) ELSE ms

\* loadMessages: repeated sections are cut off, an answer that was under way is kept if it
\* has any text, and the last one without text becomes an error.
normalizeStoredMessageForLoad(m) ==
    LET n == [m EXCEPT !.text = collapseRepeatedSectionSnapshots(@)]
    IN  IF IsPending(n) /\ n.text # <<>> THEN completeAssistantMessage(n) ELSE n
sanitizeMessagesOnLoad(ms) ==
    [i \in 1..Len(ms) |->
        IF IsPending(ms[i]) /\ \A j \in i+1..Len(ms) : ~IsPending(ms[j])
        THEN WithError(ms[i]) ELSE ms[i]]
loadMessages(ms) ==
    sanitizeMessagesOnLoad(trimMessages([i \in 1..Len(ms) |-> normalizeStoredMessageForLoad(ms[i])]))

\* What an earlier visit left: a question whose answer was deleted.
Earlier == <<User(0)>>

Init ==
    /\ stored = Earlier /\ messages = stored /\ saveTimer = FALSE /\ mounts = 0
    /\ stage = [r \in Request |-> "none"]
    /\ stream = [r \in Request |-> FALSE]
    /\ said = [r \in Request |-> <<>>]
    /\ source = 0 /\ requestId = 0 /\ controller = 0
    /\ isStreaming = FALSE /\ isRequesting = FALSE
    /\ buffer = <<>> /\ flushTimer = FALSE /\ editing = <<>>
    /\ left = [r \in Request |-> <<>>] /\ waiting = [r \in Request |-> <<>>] /\ late = FALSE
    /\ overlapped = FALSE /\ mistaken = {}

-----------------------------------------------------------------------------
(* Requests *)

\* sendChat.  A stream closes the one before it; a plain request aborts nothing.  Neither
\* touches the buffer.
sendChat(r) ==
    /\ \A q \in Request : stage[q] = "none" <=> q >= r
    /\ isRequesting' = TRUE
    /\ overlapped' = (overlapped \/ Generating)
    /\ \/ /\ stream' = [stream EXCEPT ![r] = TRUE]
          /\ stage' = [q \in Request |-> IF q = r THEN "open"
                                         ELSE IF q = source THEN "ended" ELSE stage[q]]
          /\ source' = r /\ isStreaming' = TRUE
          /\ UNCHANGED <<requestId, controller>>
       \/ /\ stage' = [stage EXCEPT ![r] = "open"]
          /\ requestId' = r /\ controller' = r
          /\ UNCHANGED <<stream, source, isStreaming>>
    /\ UNCHANGED <<said, buffers>>

MaySay(d) == FoldFunction(LAMBDA s, n : Len(s) + n, Len(d), said) <= MaxText[mounts]

\* A chunk arrives: handleStreamUpdate, scheduleStreamFlush.
handleStreamUpdate(r) ==
    /\ stage[r] = "open" /\ stream[r]
    /\ \E d \in Delta :
         /\ MaySay(d)
         /\ said' = [said EXCEPT ![r] = @ \o d]
         /\ buffer' = mergePendingStreamChunk(buffer, Chunk(r, d))
         /\ mistaken' = mistaken \union Mistaken(r, buffer, Chunk(r, d))
    /\ flushTimer' = TRUE
    /\ UNCHANGED <<messages, stage, stream, refs, isStreaming, isRequesting, editing,
                   storage, overlapped>>

FlushTimer ==
    /\ flushTimer
    /\ FlushAnd(Last(Flushed))
    /\ UNCHANGED <<requests, refs, isStreaming, isRequesting, editing, kept, overlapped>>

\* The stream ends: [DONE] (handleStreamComplete), or an error or a chunk that cannot be
\* parsed (handleStreamError).  closeActiveStream in both cases.
StreamEnds(r) ==
    /\ stage[r] = "open" /\ stream[r]
    /\ stage' = [stage EXCEPT ![r] = "ended"]
    /\ source' = 0 /\ isStreaming' = FALSE /\ isRequesting' = FALSE
    /\ FlushAnd(CompleteIfPending(Last(Flushed))) \/ FlushAnd(WithError(Last(Flushed)))
    /\ UNCHANGED <<stream, said, requestId, controller, editing, kept, overlapped>>

\* The connection is closed with status 200 and without [DONE]: no listener does anything.
StreamDropped(r) ==
    /\ stage[r] = "open" /\ stream[r]
    /\ stage' = [stage EXCEPT ![r] = "ended"]
    /\ UNCHANGED <<messages, stream, said, refs, isStreaming, isRequesting, buffers,
                   editing, storage, overlapped>>

\* The finally of sendNonStreamingChat, after requesting became b.
FinallyAnyRequest(r, b) == controller' = 0 /\ isRequesting' = FALSE
FinallyNever(r, b) == isRequesting' = b /\ UNCHANGED controller
Finally(r, b) ==
    IF requestId = r THEN controller' = 0 /\ isRequesting' = FALSE
                     ELSE isRequesting' = b /\ UNCHANGED controller

\* A plain request returns: with an answer, with an error or without a choice, or aborted.
PlainReturns(r) ==
    /\ stage[r] \in {"open", "aborted"} /\ ~stream[r]
    /\ stage' = [stage EXCEPT ![r] = "ended"]
    /\ \/ /\ stage[r] = "open"
          /\ \E d \in Delta :
               /\ said' = [said EXCEPT ![r] = d]
               /\ updateMessages(updateLastAssistantMessage(messages, WithAnswer(Last(messages), d)))
          /\ Finally(r, isRequesting)
          /\ UNCHANGED buffers
       \/ /\ stage[r] = "open"
          /\ FlushAnd(WithError(Last(Flushed)))
          /\ Finally(r, FALSE)
          /\ UNCHANGED said
       \/ /\ stage[r] = "aborted"
          /\ Finally(r, isRequesting)
          /\ UNCHANGED <<messages, saveTimer, buffers, said>>
    /\ UNCHANGED <<stream, source, requestId, isStreaming, editing, kept,
                   overlapped>>

\* stopGeneration.
StopPlain ==
    /\ Generating
    /\ stage' = [q \in Request |-> IF q = source THEN "ended"
                                   ELSE IF q = controller THEN "aborted" ELSE stage[q]]
    /\ source' = 0 /\ isStreaming' = FALSE /\ controller' = 0 /\ isRequesting' = FALSE
    /\ updateMessages(updateLastAssistantMessage(messages, CompleteIfPending(Last(messages))))
    /\ UNCHANGED buffers
    /\ UNCHANGED <<stream, said, requestId, editing, kept, overlapped>>
stopGeneration ==
    /\ Generating
    /\ stage' = [q \in Request |-> IF q = source THEN "ended"
                                   ELSE IF q = controller THEN "aborted" ELSE stage[q]]
    /\ source' = 0 /\ isStreaming' = FALSE /\ controller' = 0 /\ isRequesting' = FALSE
    /\ FlushAnd(CompleteIfPending(Last(Flushed)))
    /\ UNCHANGED <<stream, said, requestId, editing, kept, overlapped>>

-----------------------------------------------------------------------------
(* The conversation *)

\* handleSendMessage; the input is disabled while a request is under way.
handleSendMessage(r) ==
    /\ ~Generating
    /\ updateMessages(messages \o <<User(r), Loading(r)>>)
    /\ sendChat(r)
    /\ UNCHANGED <<editing, kept>>

\* handleRegenerateMessage, under guardAction.
handleRegenerateMessage(i, r) ==
    /\ ~Generating
    /\ updateMessages(SubSeq(messages, 1, IF messages[i].from = "user" THEN i ELSE i - 1)
                        \o <<Loading(r)>>)
    /\ sendChat(r)
    /\ UNCHANGED <<editing, kept>>

\* handleEditMessage, under guardAction; the editor stays open until it is saved or
\* cancelled or its message is gone.
handleEditMessage(i) ==
    /\ mounts <= EditMounts /\ messages[i].key \in Editable
    /\ ~Generating /\ messages[i].text # <<>>
    /\ editing' = <<messages[i].from, messages[i].key>>
    /\ UNCHANGED <<messages, requests, refs, isStreaming, isRequesting, buffers, storage, overlapped>>

handleEditOpenChange ==
    /\ editing # <<>> /\ editing' = <<>>
    /\ UNCHANGED <<messages, requests, refs, isStreaming, isRequesting, buffers, storage, overlapped>>

\* applyEdit: Save, or Save & Submit for a question; nothing asks whether a request is
\* under way.
SaveEdit(i) ==
    /\ editing = <<messages[i].from, messages[i].key>>
    /\ editing' = <<>>
    /\ updateMessages([messages EXCEPT ![i].text = Edited])
    /\ UNCHANGED <<requests, refs, isStreaming, isRequesting, buffers, kept, overlapped>>

SaveEditAndSubmit(i, r) ==
    /\ editing = <<messages[i].from, messages[i].key>> /\ messages[i].from = "user"
    /\ editing' = <<>>
    /\ updateMessages(SubSeq([messages EXCEPT ![i].text = Edited], 1, i) \o <<Loading(r)>>)
    /\ sendChat(r)
    /\ UNCHANGED kept

\* handleDeleteMessage, under guardAction.
handleDeleteMessage(i) ==
    /\ ~Generating
    /\ updateMessages(RemoveAt(messages, i))
    /\ UNCHANGED <<requests, refs, isStreaming, isRequesting, buffers, editing, kept,
                   overlapped>>

handleClearMessages ==
    /\ ~Generating /\ messages # <<>>
    /\ updateMessages(<<>>) /\ editing' = <<>>
    /\ UNCHANGED <<requests, refs, isStreaming, isRequesting, buffers, kept, overlapped>>

-----------------------------------------------------------------------------
(* Storage *)

SaveTimer ==
    /\ saveTimer /\ saveTimer' = FALSE
    /\ stored' = trimMessages(messages) /\ late' = FALSE
    /\ UNCHANGED <<messages, requests, refs, isStreaming, isRequesting, buffers, editing, mounts,
                   left, waiting, overlapped>>

\* The page starts from what was stored; what it finds to repair is stored at once.
Mount(ms) ==
    /\ mounts < MaxMounts /\ mounts' = mounts + 1
    /\ messages' = loadMessages(ms) /\ stored' = loadMessages(ms) /\ saveTimer' = FALSE
    /\ source' = 0 /\ requestId' = 0 /\ controller' = 0
    /\ isStreaming' = FALSE /\ isRequesting' = FALSE
    /\ buffer' = <<>> /\ flushTimer' = FALSE /\ editing' = <<>>
    /\ late' = FALSE
    /\ UNCHANGED <<stream, said, overlapped, mistaken>>

\* Another page of the application and back: a save that is due is made first.  Nothing
\* ends the requests of the page that is left.
LeaveWith(ms) ==
    /\ Mount(ms)
    /\ stage' = [q \in Request |-> IF stage[q] = "open" THEN "left"
                                   ELSE IF stage[q] = "aborted" THEN "ended" ELSE stage[q]]
    /\ left' = [q \in Request |-> IF stage[q] = "open" THEN messages ELSE left[q]]
    /\ waiting' = [q \in Request |-> IF stage[q] = "open" THEN buffer ELSE waiting[q]]
LeaveUnsaved == LeaveWith(stored)
Leave == LeaveWith(IF saveTimer THEN trimMessages(messages) ELSE stored)

\* The browser loads the page again, or crashed.
Reload ==
    /\ Mount(stored)
    /\ stage' = [q \in Request |-> IF stage[q] = "none" THEN "none" ELSE "ended"]
    /\ left' = [q \in Request |-> <<>>] /\ waiting' = [q \in Request |-> <<>>]

\* A chunk for a page that was left waits as before: its refs are still there.
LateChunk(r) ==
    /\ stage[r] = "left" /\ stream[r]
    /\ \E d \in Delta :
         /\ MaySay(d)
         /\ said' = [said EXCEPT ![r] = @ \o d]
         /\ waiting' = [waiting EXCEPT ![r] = mergePendingStreamChunk(@, Chunk(r, d))]
         /\ mistaken' = mistaken \union Mistaken(r, waiting[r], Chunk(r, d))
    /\ UNCHANGED <<messages, stage, stream, refs, isStreaming, isRequesting, buffer, flushTimer,
                   editing, saveTimer, stored, mounts, left, late, overlapped>>

\* The first report to a page that was left, a flush if anything waits: updateMessages saves
\* from within the updater, and React may run it although the page is gone.
LateSave(r, m) ==
    /\ stored' = trimMessages(updateLastAssistantMessage(left[r], m)) /\ late' = TRUE
LateReport(r) ==
    /\ stage[r] = "left"
    /\ stage' = [stage EXCEPT ![r] = "ended"]
    /\ left' = [left EXCEPT ![r] = <<>>] /\ waiting' = [waiting EXCEPT ![r] = <<>>]
    /\ \/ /\ waiting[r] # <<>>
          /\ LateSave(r, applyStreamingChunk(Last(left[r]), waiting[r]))
          /\ mistaken' = mistaken \union FlushMistakes(left[r], waiting[r])
          /\ UNCHANGED said
       \/ /\ ~stream[r]
          /\ \E d \in Delta : said' = [said EXCEPT ![r] = d] /\ LateSave(r, WithAnswer(Last(left[r]), d))
          /\ UNCHANGED mistaken
       \/ /\ \/ waiting[r] = <<>> /\ stream[r] /\ LateSave(r, CompleteIfPending(Last(left[r])))
             \/ waiting[r] = <<>> /\ LateSave(r, WithError(Last(left[r])))
             \/ UNCHANGED <<stored, late>>
          /\ UNCHANGED <<said, mistaken>>
    /\ UNCHANGED <<messages, stream, refs, isStreaming, isRequesting, buffer, flushTimer, editing,
                   saveTimer, mounts, overlapped>>

-----------------------------------------------------------------------------
Next ==
    \/ FlushTimer \/ SaveTimer \/ Leave \/ Reload
    \/ stopGeneration \/ handleEditOpenChange \/ handleClearMessages
    \/ \E r \in Request : \/ handleSendMessage(r) \/ handleStreamUpdate(r)
                          \/ StreamEnds(r) \/ StreamDropped(r) \/ PlainReturns(r)
                          \/ LateChunk(r) \/ LateReport(r)
                          \/ \E i \in DOMAIN messages :
                                handleRegenerateMessage(i, r) \/ SaveEditAndSubmit(i, r)
    \/ \E i \in DOMAIN messages : handleEditMessage(i) \/ SaveEdit(i) \/ handleDeleteMessage(i)

Spec == Init /\ [][Next]_vars

(***************************************************************************)
(* Fairness.  A request that was sent is answered, fails or is cut off.    *)
(* Nothing is assumed of the user.                                         *)
(***************************************************************************)
Fairness ==
    \A r \in Request : WF_vars(StreamEnds(r) \/ StreamDropped(r)) /\ WF_vars(PlainReturns(r))

FairSpec == Spec /\ Fairness

-----------------------------------------------------------------------------
(* Properties *)

Status == {"loading", "streaming", "complete", "error"}

\* Messages, requests and references keep their type.
TypeOK ==
    /\ \A i \in DOMAIN messages : messages[i].status \in Status /\ messages[i].key \in 0..MaxRequests
    /\ stage \in [Request -> {"none", "open", "aborted", "left", "ended"}]
    /\ stream \in [Request -> BOOLEAN] /\ said \in [Request -> Seq(Nat)] /\ mistaken \subseteq 0..MaxRequests
    /\ source \in 0..MaxRequests /\ requestId \in 0..MaxRequests
    /\ controller \in 0..MaxRequests
    /\ isStreaming \in BOOLEAN /\ isRequesting \in BOOLEAN /\ flushTimer \in BOOLEAN
    /\ Len(stored) <= MaxStored /\ mounts \in 0..MaxMounts

\* When nothing is being generated, no answer is left loading or streaming and no chunk
\* waits to be written into a finished answer, however requests were stopped, superseded or
\* cut off by loading the page again.
IdleIsFinal ==
    ~Generating => (\A i \in DOMAIN messages : ~IsPending(messages[i])) /\ buffer = <<>>

PartOf(t, s) == \E k \in 0..Len(s) : k + Len(t) <= Len(s) /\ \A i \in 1..Len(t) : t[i] = s[k + i]

\* As long as no request was sent while another was under way, an answer consists of what
\* the upstream said to its own request: all of it that arrived, or after a reload the
\* beginning, or a part if sections repeat, whenever the buffer was flushed and whether the
\* upstream sends what is new or the text so far.  Answers in which something new began with
\* what was pending or shown and was taken for the text so far are left out: they do lose it.
WholeAnswer ==
    ~overlapped => \A i \in DOMAIN messages :
        LET m == messages[i] IN
        m.from = "assistant" /\ m.status = "complete" /\ m.text # Edited /\ m.key \notin mistaken
          => /\ PartOf(m.text, said[m.key])
             /\ Repeated(said[m.key]) = {} => IsPrefix(m.text, said[m.key])
             /\ mounts = 0 => m.text = said[m.key]

\* Under the same condition a request that is under way is shown as such, so that the
\* conversation it answers is not changed under it: one that was stopped and returns late
\* does not pass for the one that replaced it.
BusyWhileAwaiting == ~overlapped => \A r \in Request : stage[r] = "open" => Generating

\* Leaving the page and coming back shows the conversation that was shown, as it is loaded
\* (finished and trimmed), at whatever point of the debounce it was left, unless a page that
\* was left before has written its own conversation since this one was saved.  Chunks that
\* were not shown yet are lost.
LeaveKeeps == [][Leave /\ (saveTimer \/ ~late) => messages' = loadMessages(trimMessages(messages))]_vars

Dropped == source # 0 /\ stage[source] = "ended"

\* Generation ends, or its stream was closed without saying so.
GenerationEnds == Generating ~> ~Generating \/ Dropped

=============================================================================
