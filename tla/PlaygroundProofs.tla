-------------------------- MODULE PlaygroundProofs --------------------------
(***************************************************************************)
(* Proofs about Playground, for any number of requests, answers, stored    *)
(* messages and visits of the page.                                        *)
(***************************************************************************)
EXTENDS Playground, SequenceTheorems, WellFoundedInduction, TLAPS

-----------------------------------------------------------------------------
(* Sequences of messages *)

Text == Seq(Nat)
Message == [from : {"user", "assistant"}, key : 0..MaxRequests, status : Status, text : Text]
Conversation == Seq(Message)

\* Only the last message may be an answer under way; no message is one.
TailPending(ms) == \A i \in 1..Len(ms) - 1 : ~IsPending(ms[i])
NonePending(ms) == \A i \in 1..Len(ms) : ~IsPending(ms[i])

LEMMA NatFacts ==
    MaxRequests \in Nat /\ MaxStored \in Nat \ {0} /\ MaxMounts \in Nat
BY BoundAssumption

LEMMA LastMessage ==
    ASSUME NEW ms \in Conversation, ms # <<>>
    PROVE  Len(ms) \in Nat \ {0} /\ Len(ms) \in 1..Len(ms) /\ Last(ms) \in Message /\ Last(ms) = ms[Len(ms)]
BY EmptySeq, ElementOfSeq DEF Conversation, Last

\* updateLastAssistantMessage touches the last message only, and only an answer.
LEMMA UpdateLast ==
    ASSUME NEW ms \in Conversation, NEW m,
           ms # <<>> /\ Last(ms).from = "assistant" => m \in Message
    PROVE  LET us == updateLastAssistantMessage(ms, m) IN
           /\ us \in Conversation /\ Len(us) = Len(ms)
           /\ \A i \in 1..Len(ms) :
                us[i] = IF i = Len(ms) /\ ms[i].from = "assistant" THEN m ELSE ms[i]
<1>1. CASE ms # <<>> /\ Last(ms).from = "assistant"
  <2>1. Len(ms) \in 1..Len(ms) /\ Last(ms) = ms[Len(ms)]
    BY <1>1, LastMessage
  <2>2. updateLastAssistantMessage(ms, m) = [ms EXCEPT ![Len(ms)] = m]
    BY <1>1 DEF updateLastAssistantMessage
  <2> QED
    BY <1>1, <2>1, <2>2, ExceptSeq DEF Conversation
<1>2. CASE ~(ms # <<>> /\ Last(ms).from = "assistant")
  <2>1. updateLastAssistantMessage(ms, m) = ms
    BY <1>2 DEF updateLastAssistantMessage
  <2>2. \A i \in 1..Len(ms) : ~(i = Len(ms) /\ ms[i].from = "assistant")
    BY <1>2, EmptySeq DEF Conversation, Last
  <2> QED
    BY <2>1, <2>2
<1> QED
  BY <1>1, <1>2

LEMMA TrimFacts ==
    ASSUME NEW ms \in Conversation
    PROVE  LET ts == trimMessages(ms) IN
           /\ ts \in Conversation /\ Len(ts) <= MaxStored /\ Len(ts) <= Len(ms) /\ Len(ms) - Len(ts) \in Nat
           /\ \A i \in 1..Len(ts) : i + (Len(ms) - Len(ts)) \in 1..Len(ms) /\ ts[i] = ms[i + (Len(ms) - Len(ts))]
           /\ Len(ms) <= MaxStored => ts = ms
<1>1. Len(ms) \in Nat /\ MaxStored \in Nat \ {0} /\ \A i \in 1..Len(ms) : ms[i] \in Message
  BY NatFacts, LenProperties, ElementOfSeq DEF Conversation
<1>2. CASE Len(ms) > MaxStored
  <2> DEFINE ts == SubSeq(ms, Len(ms) - MaxStored + 1, Len(ms))
  <2>1. \A i \in Len(ms) - MaxStored + 1 .. Len(ms) : ms[i] \in Message
    BY <1>1, <1>2
  <2>2. /\ ts \in Seq(Message) /\ Len(ts) = MaxStored
        /\ \A i \in 1..MaxStored : ts[i] = ms[i + (Len(ms) - MaxStored)]
    BY <1>1, <1>2, <2>1, SubSeqProperties
  <2>3. trimMessages(ms) = ts
    BY <1>2 DEF trimMessages
  <2> HIDE DEF ts
  <2>4. \A i \in 1..MaxStored : i + (Len(ms) - MaxStored) \in 1..Len(ms)
    BY <1>1, <1>2
  <2>5. Len(ts) <= MaxStored /\ Len(ts) <= Len(ms) /\ Len(ms) - Len(ts) \in Nat
    BY <1>1, <1>2, <2>2
  <2> QED
    BY <1>2, <2>2, <2>3, <2>4, <2>5 DEF Conversation
<1>3. CASE ~(Len(ms) > MaxStored)
  BY <1>1, <1>3 DEF trimMessages
<1> QED
  BY <1>2, <1>3

LEMMA TrimTail ==
    ASSUME NEW ms \in Conversation, TailPending(ms)
    PROVE  TailPending(trimMessages(ms))
<1> DEFINE ts == trimMessages(ms)
           d == Len(ms) - Len(ts)
<1>1. Len(ms) \in Nat /\ Len(ts) \in Nat /\ d \in Nat
  BY TrimFacts, LenProperties DEF Conversation
<1>2. \A i \in 1..Len(ts) : ts[i] = ms[i + d]
  BY TrimFacts
<1>3. ASSUME NEW i \in 1..Len(ts) - 1
      PROVE  i \in 1..Len(ts) /\ i + d \in 1..Len(ms) - 1
  BY <1>1
<1> HIDE DEF ts, d
<1>4. \A i \in 1..Len(ts) - 1 : ~IsPending(ts[i])
  BY <1>2, <1>3 DEF TailPending
<1> QED
  BY <1>4 DEF TailPending, ts

-----------------------------------------------------------------------------
(* Messages *)

LEMMA MadeMessages ==
    /\ \A r \in Request : User(r) \in Message /\ Loading(r) \in Message
    /\ User(0) \in Message /\ ~IsPending(User(0))
    /\ \A r \in Request : ~IsPending(User(r))
    /\ Edited \in Text /\ ErrorText \in Text /\ \A d \in Delta : d \in Text /\ d # <<>>
<1>1. \A n \in Nat : <<n>> \in Seq(Nat)
  OBVIOUS
<1>2. <<>> \in Seq(Nat)
  BY EmptySeq
<1>3. \A d \in Delta : d \in Seq(Nat) /\ d # <<>>
  BY TextAssumption
<1>4. <<0, 0>> \in Seq(Nat)
  OBVIOUS
<1> QED
  BY <1>1, <1>2, <1>3, <1>4, NatFacts DEF User, Loading, IsPending, Message, Status, Request, Text,
     Edited, ErrorText

\* Of a set of places in a text, one is the first and one the last.
LEMMA Extremes ==
    ASSUME NEW n \in Nat, NEW S \in SUBSET (1..n), S # {}
    PROVE  /\ \E k \in S : \A l \in S : l <= k
           /\ Min(S) \in S
<1>1. \A T \in SUBSET Nat : T # {} => \E x \in T : \A y \in T : x <= y
  <2> SUFFICES ASSUME NEW T \in SUBSET Nat, T # {} PROVE \E x \in T : \A y \in T : x <= y
    OBVIOUS
  <2> DEFINE R == {ss \in Nat \X Nat : ss[1] < ss[2]}
  <2>1. IsWellFoundedOn(R, Nat)
    BY NatLessThanWellFounded DEF OpToRel
  <2> HIDE DEF R
  <2>2. PICK x \in T : \A y \in T : ~(<<y, x>> \in R)
    BY <2>1, WFMin
  <2>3. ASSUME NEW y \in T PROVE x <= y
    <3>1. x \in Nat /\ y \in Nat /\ <<y, x>>[1] = y /\ <<y, x>>[2] = x
      OBVIOUS
    <3>2. ~(y < x)
      BY <2>2, <3>1 DEF R
    <3> QED
      BY <3>1, <3>2
  <2> QED
    BY <2>3
<1>2. \E k \in S : \A l \in S : l <= k
  <2> DEFINE T == {n - l : l \in S}
  <2>1. \A l \in S : n - l \in Nat
    OBVIOUS
  <2>2. T \in SUBSET Nat /\ T # {}
    BY <2>1
  <2>3. PICK x \in T : \A y \in T : x <= y
    BY <1>1, <2>2
  <2>4. PICK k \in S : x = n - k
    OBVIOUS
  <2>5. \A l \in S : n - k <= n - l
    BY <2>3, <2>4
  <2> QED
    BY <2>5
<1>3. \E x \in S : \A y \in S : x <= y
  BY <1>1
<1> QED
  BY <1>2, <1>3 DEF Min

\* A text is loaded as it is, or cut down to an end of it.
LEMMA CollapseFacts ==
    ASSUME NEW t \in Text
    PROVE  LET c == collapseRepeatedSectionSnapshots(t) IN
           /\ c \in Text
           /\ Repeated(t) = {} => c = t
           /\ c = t \/ \E k \in 1..Len(t) : c = SubSeq(t, k, Len(t))
<1>1. Len(t) \in Nat /\ \A i \in 1..Len(t) : t[i] \in Nat
  BY LenProperties, ElementOfSeq DEF Text
<1>2. CASE Len(t) < MinCollapse \/ Repeated(t) = {}
  BY <1>2 DEF collapseRepeatedSectionSnapshots
<1>3. CASE ~(Len(t) < MinCollapse \/ Repeated(t) = {})
  <2>1. PICK k \in Repeated(t) : TRUE
    BY <1>3
  <2>2. PICK i \in 1..k-1, j \in 1..k-1 : k \in 1..Len(t) /\ t[k] \in Heading /\ i < j /\ t[i] = t[k] /\ t[j] = t[k]
    BY <2>1 DEF Repeated
  <2> DEFINE S == {l \in 1..Len(t) : t[l] = t[k]}
  <2>3. PICK l \in S : \A h \in S : h <= l
    BY <1>1, <2>2, Extremes
  <2>4. k <= l
    BY <2>2, <2>3
  <2>5. l \in Repeated(t)
    BY <1>1, <2>2, <2>3, <2>4 DEF Repeated
  <2>6. l \in RunStarts(t)
    BY <1>1, <2>2, <2>3, <2>5 DEF RunStarts
  <2>7. RunStarts(t) \in SUBSET (1..Len(t)) /\ RunStarts(t) # {}
    BY <2>6 DEF RunStarts, Repeated
  <2>8. Min(RunStarts(t)) \in 1..Len(t)
    BY <1>1, <2>7, Extremes
  <2>9. collapseRepeatedSectionSnapshots(t) = SubSeq(t, Min(RunStarts(t)), Len(t))
    BY <1>3 DEF collapseRepeatedSectionSnapshots
  <2>10. SubSeq(t, Min(RunStarts(t)), Len(t)) \in Text
    BY <1>1, <2>8, SubSeqProperties DEF Text
  <2> QED
    BY <1>3, <2>8, <2>9, <2>10
<1> QED
  BY <1>2, <1>3

LEMMA ChangedMessages ==
    ASSUME NEW m \in Message
    PROVE  /\ completeAssistantMessage(m) \in Message /\ ~IsPending(completeAssistantMessage(m))
           /\ CompleteIfPending(m) \in Message /\ ~IsPending(CompleteIfPending(m))
           /\ WithError(m) \in Message /\ ~IsPending(WithError(m))
           /\ normalizeStoredMessageForLoad(m) \in Message
           /\ IsPending(normalizeStoredMessageForLoad(m)) => IsPending(m)
           /\ \A d \in Delta : WithAnswer(m, d) \in Message /\ ~IsPending(WithAnswer(m, d))
<1>1. collapseRepeatedSectionSnapshots(m.text) \in Text
  BY CollapseFacts DEF Message
<1>2. /\ completeAssistantMessage(m) \in Message /\ ~IsPending(completeAssistantMessage(m))
      /\ CompleteIfPending(m) \in Message /\ ~IsPending(CompleteIfPending(m))
      /\ WithError(m) \in Message /\ ~IsPending(WithError(m))
  BY MadeMessages DEF completeAssistantMessage, CompleteIfPending, WithError, IsPending, Message, Status
<1>3. /\ normalizeStoredMessageForLoad(m) \in Message
      /\ IsPending(normalizeStoredMessageForLoad(m)) => IsPending(m)
  BY <1>1 DEF normalizeStoredMessageForLoad, completeAssistantMessage, IsPending, Message, Status
<1>4. \A d \in Delta : WithAnswer(m, d) \in Message /\ ~IsPending(WithAnswer(m, d))
  BY MadeMessages DEF WithAnswer, IsPending, Message, Status
<1> QED
  BY <1>2, <1>3, <1>4

LEMMA IsPrefixText ==
    ASSUME NEW s \in Text, NEW t \in Text
    PROVE  IsPrefix(s, t) <=> Len(s) <= Len(t) /\ \A i \in 1..Len(s) : s[i] = t[i]
BY DEF Text, IsPrefix

LEMMA AppendableText ==
    ASSUME NEW s \in Text, NEW t \in Text
    PROVE  getAppendableChunk(s, t) \in Text /\ mergePendingStreamChunk(s, t) \in Text
BY DEF Text, getAppendableChunk, mergePendingStreamChunk

LEMMA StreamedMessage ==
    ASSUME NEW m \in Message, NEW c \in Text
    PROVE  applyStreamingChunk(m, c) \in Message
<1>1. m.text \in Text
  BY DEF Message
<1>2. m.text \o getAppendableChunk(m.text, c) \in Text
  BY <1>1, AppendableText, ConcatProperties DEF Text
<1> QED
  BY <1>2 DEF applyStreamingChunk, Message, Status

LEMMA SeqOfFunction ==
    ASSUME NEW S, NEW n \in Nat, NEW f \in [1..n -> S]
    PROVE  f \in Seq(S) /\ Len(f) = n
OBVIOUS

\* What loadMessages makes of a conversation: no answer is under way in it.
LEMMA LoadFacts ==
    ASSUME NEW ms \in Conversation, TailPending(ms)
    PROVE  /\ loadMessages(ms) \in Conversation /\ Len(loadMessages(ms)) <= MaxStored
           /\ NonePending(loadMessages(ms))
<1> DEFINE ns == [i \in 1..Len(ms) |-> normalizeStoredMessageForLoad(ms[i])]
           ts == trimMessages(ns)
           ls == sanitizeMessagesOnLoad(ts)
<1>1. Len(ms) \in Nat /\ \A i \in 1..Len(ms) : ms[i] \in Message
  BY LenProperties, ElementOfSeq DEF Conversation
<1>2. \A i \in 1..Len(ms) : /\ normalizeStoredMessageForLoad(ms[i]) \in Message
                            /\ IsPending(normalizeStoredMessageForLoad(ms[i])) => IsPending(ms[i])
  BY <1>1, ChangedMessages
<1>3. ns \in Conversation /\ Len(ns) = Len(ms)
  <2>1. ns \in [1..Len(ms) -> Message]
    BY <1>2
  <2> QED
    BY <1>1, <2>1, SeqOfFunction DEF Conversation
<1>4. TailPending(ns)
  BY <1>1, <1>2, <1>3 DEF TailPending
<1> HIDE DEF ns
<1>5. ts \in Conversation /\ Len(ts) <= MaxStored /\ TailPending(ts)
  BY <1>3, <1>4, TrimFacts, TrimTail
<1> HIDE DEF ts
<1>6. Len(ts) \in Nat /\ \A i \in 1..Len(ts) : ts[i] \in Message
  BY <1>5, LenProperties, ElementOfSeq DEF Conversation
<1>7. ls \in [1..Len(ts) -> Message]
  BY <1>6, ChangedMessages DEF sanitizeMessagesOnLoad
<1>8. ls \in Conversation /\ Len(ls) = Len(ts)
  BY <1>6, <1>7, SeqOfFunction DEF Conversation
<1>9. ASSUME NEW i \in 1..Len(ts) PROVE ~IsPending(ls[i])
  <2>1. CASE ~IsPending(ts[i])
    BY <1>9, <2>1 DEF sanitizeMessagesOnLoad
  <2>2. CASE IsPending(ts[i])
    <3>1. i = Len(ts)
      BY <1>5, <1>6, <1>9, <2>2 DEF TailPending
    <3>2. ls[i] = WithError(ts[i])
      BY <1>6, <1>9, <2>2, <3>1 DEF sanitizeMessagesOnLoad
    <3> QED
      BY <1>6, <1>9, <3>2, ChangedMessages
  <2> QED
    BY <2>1, <2>2
<1>10. loadMessages(ms) = ls
  BY DEF loadMessages, ns, ts
<1> QED
  BY <1>5, <1>8, <1>9, <1>10 DEF NonePending

LEMMA UpdateTail ==
    ASSUME NEW ms \in Conversation, TailPending(ms), NEW m,
           ms # <<>> /\ Last(ms).from = "assistant" => m \in Message
    PROVE  LET us == updateLastAssistantMessage(ms, m) IN
           /\ TailPending(us)
           /\ (ms # <<>> /\ Last(ms).from = "assistant" => ~IsPending(m)) => NonePending(us)
<1> DEFINE us == updateLastAssistantMessage(ms, m)
<1>1. /\ us \in Conversation /\ Len(us) = Len(ms)
      /\ \A i \in 1..Len(ms) :
           us[i] = IF i = Len(ms) /\ ms[i].from = "assistant" THEN m ELSE ms[i]
  BY UpdateLast
<1>2. Len(ms) \in Nat
  BY LenProperties DEF Conversation
<1> HIDE DEF us
<1>3. TailPending(us)
  BY <1>1, <1>2 DEF TailPending
<1>4. ASSUME ms # <<>> /\ Last(ms).from = "assistant" => ~IsPending(m) PROVE NonePending(us)
  <2> SUFFICES ASSUME NEW i \in 1..Len(ms) PROVE ~IsPending(us[i])
    BY <1>1 DEF NonePending
  <2>1. CASE i # Len(ms)
    BY <1>1, <1>2, <2>1 DEF TailPending
  <2>2. CASE i = Len(ms)
    <3>1. ms # <<>> /\ Last(ms) = ms[i]
      BY <2>2, EmptySeq DEF Conversation, Last
    <3> QED
      BY <1>1, <1>4, <2>2, <3>1 DEF IsPending
  <2> QED
    BY <2>1, <2>2
<1> QED
  BY <1>3, <1>4 DEF us

-----------------------------------------------------------------------------
(* The inductive invariant *)

ConversationsOK ==
    /\ messages \in Conversation /\ buffer \in Text
    /\ stored \in Conversation /\ Len(stored) <= MaxStored
    /\ left \in [Request -> Conversation] /\ waiting \in [Request -> Text]

RefsOK ==
    /\ stage \in [Request -> {"none", "open", "aborted", "left", "ended"}]
    /\ stream \in [Request -> BOOLEAN]
    /\ source \in 0..MaxRequests /\ requestId \in 0..MaxRequests
    /\ controller \in 0..MaxRequests /\ mounts \in 0..MaxMounts
FlagsOK == isStreaming \in BOOLEAN /\ isRequesting \in BOOLEAN /\ flushTimer \in BOOLEAN

RequestsOK == RefsOK /\ FlagsOK

SaidOK == said \in [Request -> Text] /\ mistaken \subseteq 0..MaxRequests

\* Answers under way stand at the end, on this page, in the storage and on pages left.
Tails ==
    /\ TailPending(messages) /\ TailPending(stored)
    /\ \A r \in Request : TailPending(left[r])

\* A stream that is open is the one sseSourceRef names, and chunks wait only while
\* isStreaming holds; a request that was never sent is not marked as a stream.
StreamRefs ==
    /\ \A r \in Request : stage[r] = "open" /\ stream[r] => source = r /\ isStreaming
    /\ buffer # <<>> => isStreaming
    /\ \A r \in Request : stage[r] = "none" => ~stream[r]

\* While isRequesting alone holds, the last plain request is under way.
PlainRefs ==
    isRequesting /\ ~isStreaming =>
        requestId \in Request /\ stage[requestId] = "open" /\ ~stream[requestId]

\* Without overlapping requests at most one is under way, and it is the one that stop would
\* end and whose return ends the generation.
Awaiting ==
    ~overlapped => \A r \in Request : stage[r] = "open" =>
        /\ Generating
        /\ ~stream[r] => requestId = r /\ controller = r /\ isRequesting
        /\ \A q \in Request : stage[q] = "open" => q = r

\* What is shown is what is stored, unless a save is due or another page wrote.
SavedIsShown == ~saveTimer /\ ~late => stored = trimMessages(messages)

LEMMA FlushedFacts ==
    ASSUME ConversationsOK, TailPending(messages)
    PROVE  /\ Flushed \in Conversation /\ TailPending(Flushed) /\ Len(Flushed) = Len(messages)
           /\ Flushed # <<>> => Last(Flushed) \in Message
<1>1. messages # <<>> => applyStreamingChunk(Last(messages), buffer) \in Message
  BY LastMessage, StreamedMessage DEF ConversationsOK
<1>2. Flushed \in Conversation /\ TailPending(Flushed) /\ Len(Flushed) = Len(messages)
  BY <1>1, UpdateLast, UpdateTail DEF Flushed, ConversationsOK
<1> QED
  BY <1>2, LastMessage

LEMMA SendChatRefs ==
    ASSUME RefsOK, NEW r \in Request, sendChat(r), UNCHANGED mounts
    PROVE  RefsOK'
<1>1. r \in 0..MaxRequests
  BY NatFacts DEF Request
<1>2. stage' \in [Request -> {"none", "open", "aborted", "left", "ended"}]
  BY DEF sendChat, RefsOK
<1>3. stream' \in [Request -> BOOLEAN]
  BY DEF sendChat, RefsOK
<1> QED
  BY <1>1, <1>2, <1>3 DEF sendChat, RefsOK

\* A stream replaces the one before it, a plain request leaves it alone.
LEMMA SendChatStreams ==
    ASSUME RequestsOK, StreamRefs, NEW r \in Request, sendChat(r)
    PROVE  StreamRefs'
<1>1. stage[r] = "none" /\ buffer' = buffer /\ ~stream[r]
  BY NatFacts DEF sendChat, buffers, StreamRefs, Request
<1>2. CASE /\ stream' = [stream EXCEPT ![r] = TRUE]
           /\ stage' = [q \in Request |-> IF q = r THEN "open"
                                          ELSE IF q = source THEN "ended" ELSE stage[q]]
           /\ source' = r /\ isStreaming' = TRUE
  <2>1. \A q \in Request : q # r => stream'[q] = stream[q]
    BY <1>2 DEF RequestsOK, RefsOK
  <2>2. \A q \in Request : q # r => stage'[q] \in {"ended", stage[q]} /\ (q = source => stage'[q] = "ended")
    BY <1>2
  <2>3. stage'[r] = "open"
    BY <1>2
  <2>4. ASSUME NEW q \in Request, stage'[q] = "open" /\ stream'[q] PROVE source' = q /\ isStreaming'
    BY <1>2, <2>1, <2>2, <2>4 DEF StreamRefs
  <2>5. ASSUME NEW q \in Request, stage'[q] = "none" PROVE ~stream'[q]
    BY <2>1, <2>2, <2>3, <2>5 DEF StreamRefs
  <2>6. isStreaming'
    BY <1>2
  <2> QED
    BY <2>4, <2>5, <2>6 DEF StreamRefs
<1>3. CASE stage' = [stage EXCEPT ![r] = "open"] /\ UNCHANGED <<stream, source, isStreaming>>
  <2>1. \A q \in Request : stage'[q] = IF q = r THEN "open" ELSE stage[q]
    BY <1>3 DEF RequestsOK, RefsOK
  <2> QED
    BY <1>1, <1>3, <2>1 DEF StreamRefs
<1> QED
  BY <1>2, <1>3 DEF sendChat

LEMMA FlagsStep ==
    ASSUME FlagsOK, Next
    PROVE  FlagsOK'
<1>1. ASSUME FlushTimer PROVE FlagsOK'
  BY <1>1 DEF FlushTimer, requests, refs, kept, FlushAnd, FlagsOK
<1>2. ASSUME SaveTimer PROVE FlagsOK'
  BY <1>2 DEF SaveTimer, requests, refs, buffers, FlagsOK
<1>3. ASSUME Leave PROVE FlagsOK'
  BY <1>3 DEF Leave, Mount, LeaveWith, FlagsOK
<1>4. ASSUME Reload PROVE FlagsOK'
  BY <1>4 DEF Reload, Mount, FlagsOK
<1>5. ASSUME stopGeneration PROVE FlagsOK'
  BY <1>5 DEF stopGeneration, kept, FlushAnd, FlagsOK
<1>6. ASSUME handleEditOpenChange PROVE FlagsOK'
  BY <1>6 DEF handleEditOpenChange, requests, refs, buffers, kept, storage, FlagsOK
<1>7. ASSUME handleClearMessages PROVE FlagsOK'
  BY <1>7 DEF handleClearMessages, requests, refs, buffers, kept, FlagsOK
<1>8. ASSUME NEW r \in Request, handleSendMessage(r) PROVE FlagsOK'
  BY <1>8 DEF handleSendMessage, buffers, kept, sendChat, FlagsOK
<1>9. ASSUME NEW r \in Request, handleStreamUpdate(r) PROVE FlagsOK'
  BY <1>9 DEF handleStreamUpdate, refs, kept, storage, FlagsOK
<1>10. ASSUME NEW r \in Request, StreamEnds(r) PROVE FlagsOK'
  BY <1>10 DEF StreamEnds, kept, FlushAnd, FlagsOK
<1>11. ASSUME NEW r \in Request, StreamDropped(r) PROVE FlagsOK'
  BY <1>11 DEF StreamDropped, refs, buffers, kept, storage, FlagsOK
<1>12. ASSUME NEW r \in Request, PlainReturns(r) PROVE FlagsOK'
  BY <1>12 DEF PlainReturns, buffers, kept, FlushAnd, Finally, FlagsOK
<1>13. ASSUME NEW r \in Request, LateReport(r) PROVE FlagsOK'
  BY <1>13 DEF LateReport, refs, buffers, FlagsOK
<1>14. ASSUME NEW r \in Request, NEW i \in DOMAIN messages, handleRegenerateMessage(i, r)
      PROVE  FlagsOK'
  BY <1>14 DEF handleRegenerateMessage, buffers, kept, sendChat, FlagsOK
<1>15. ASSUME NEW r \in Request, NEW i \in DOMAIN messages, SaveEditAndSubmit(i, r)
      PROVE  FlagsOK'
  BY <1>15 DEF SaveEditAndSubmit, buffers, kept, sendChat, FlagsOK
<1>16. ASSUME NEW i \in DOMAIN messages, handleEditMessage(i) PROVE FlagsOK'
  BY <1>16 DEF handleEditMessage, requests, refs, buffers, kept, storage, FlagsOK
<1>17. ASSUME NEW i \in DOMAIN messages, SaveEdit(i) PROVE FlagsOK'
  BY <1>17 DEF SaveEdit, requests, refs, buffers, kept, FlagsOK
<1>18. ASSUME NEW i \in DOMAIN messages, handleDeleteMessage(i) PROVE FlagsOK'
  BY <1>18 DEF handleDeleteMessage, requests, refs, buffers, kept, FlagsOK
<1>19. ASSUME NEW r \in Request, LateChunk(r) PROVE FlagsOK'
  BY <1>19 DEF LateChunk, FlagsOK
<1> QED
  BY <1>1, <1>2, <1>3, <1>4, <1>5, <1>6, <1>7, <1>8, <1>9, <1>10, <1>11, <1>12, <1>13, <1>14,
     <1>15, <1>16, <1>17, <1>18, <1>19 DEF Next

LEMMA RefsStep ==
    ASSUME RefsOK, Next
    PROVE  RefsOK'
<1>1. ASSUME FlushTimer PROVE RefsOK'
  BY <1>1, NatFacts DEF FlushTimer, requests, refs, kept, FlushAnd, RefsOK, Request
<1>2. ASSUME SaveTimer PROVE RefsOK'
  BY <1>2, NatFacts DEF SaveTimer, requests, refs, buffers, RefsOK, Request
<1>3. ASSUME Leave PROVE RefsOK'
  BY <1>3, NatFacts DEF Leave, Mount, LeaveWith, RefsOK, Request
<1>4. ASSUME Reload PROVE RefsOK'
  BY <1>4, NatFacts DEF Reload, Mount, RefsOK, Request
<1>5. ASSUME stopGeneration PROVE RefsOK'
  BY <1>5, NatFacts DEF stopGeneration, kept, FlushAnd, RefsOK, Request
<1>6. ASSUME handleEditOpenChange PROVE RefsOK'
  BY <1>6, NatFacts DEF handleEditOpenChange, requests, refs, buffers, kept, storage, RefsOK,
     Request
<1>7. ASSUME handleClearMessages PROVE RefsOK'
  BY <1>7, NatFacts DEF handleClearMessages, requests, refs, buffers, kept, RefsOK, Request
<1>8. ASSUME NEW r \in Request, handleSendMessage(r) PROVE RefsOK'
  BY <1>8, SendChatRefs DEF handleSendMessage, kept
<1>9. ASSUME NEW r \in Request, handleStreamUpdate(r) PROVE RefsOK'
  BY <1>9, NatFacts DEF handleStreamUpdate, refs, kept, storage, RefsOK, Request
<1>10. ASSUME NEW r \in Request, StreamEnds(r) PROVE RefsOK'
  BY <1>10, NatFacts DEF StreamEnds, kept, FlushAnd, RefsOK, Request
<1>11. ASSUME NEW r \in Request, StreamDropped(r) PROVE RefsOK'
  BY <1>11, NatFacts DEF StreamDropped, refs, buffers, kept, storage, RefsOK, Request
<1>12. ASSUME NEW r \in Request, PlainReturns(r) PROVE RefsOK'
  BY <1>12, NatFacts DEF PlainReturns, buffers, kept, FlushAnd, Finally, RefsOK, Request
<1>13. ASSUME NEW r \in Request, LateReport(r) PROVE RefsOK'
  BY <1>13, NatFacts DEF LateReport, refs, buffers, RefsOK, Request
<1>14. ASSUME NEW r \in Request, NEW i \in DOMAIN messages, handleRegenerateMessage(i, r)
      PROVE  RefsOK'
  BY <1>14, SendChatRefs DEF handleRegenerateMessage, kept
<1>15. ASSUME NEW r \in Request, NEW i \in DOMAIN messages, SaveEditAndSubmit(i, r)
      PROVE  RefsOK'
  BY <1>15, SendChatRefs DEF SaveEditAndSubmit, kept
<1>16. ASSUME NEW i \in DOMAIN messages, handleEditMessage(i) PROVE RefsOK'
  BY <1>16, NatFacts DEF handleEditMessage, requests, refs, buffers, kept, storage, RefsOK,
     Request
<1>17. ASSUME NEW i \in DOMAIN messages, SaveEdit(i) PROVE RefsOK'
  BY <1>17, NatFacts DEF SaveEdit, requests, refs, buffers, kept, RefsOK, Request
<1>18. ASSUME NEW i \in DOMAIN messages, handleDeleteMessage(i) PROVE RefsOK'
  BY <1>18, NatFacts DEF handleDeleteMessage, requests, refs, buffers, kept, RefsOK, Request
<1>19. ASSUME NEW r \in Request, LateChunk(r) PROVE RefsOK'
  BY <1>19 DEF LateChunk, refs, RefsOK
<1> QED
  BY <1>1, <1>2, <1>3, <1>4, <1>5, <1>6, <1>7, <1>8, <1>9, <1>10, <1>11, <1>12, <1>13, <1>14,
     <1>15, <1>16, <1>17, <1>18, <1>19 DEF Next

LEMMA StreamRefsStep ==
    ASSUME RequestsOK, StreamRefs, Next
    PROVE  StreamRefs'
<1>1. ASSUME FlushTimer PROVE StreamRefs'
  BY <1>1, NatFacts DEF FlushTimer, requests, refs, kept, FlushAnd, RequestsOK, RefsOK,
     FlagsOK, Request, StreamRefs
<1>2. ASSUME SaveTimer PROVE StreamRefs'
  BY <1>2, NatFacts DEF SaveTimer, requests, refs, buffers, RequestsOK, RefsOK, FlagsOK,
     Request, StreamRefs
<1>3. ASSUME Leave PROVE StreamRefs'
  BY <1>3, NatFacts DEF Leave, Mount, LeaveWith, RequestsOK, RefsOK, FlagsOK, Request,
     StreamRefs
<1>4. ASSUME Reload PROVE StreamRefs'
  BY <1>4, NatFacts DEF Reload, Mount, RequestsOK, RefsOK, FlagsOK, Request, StreamRefs
<1>5. ASSUME stopGeneration PROVE StreamRefs'
  BY <1>5, NatFacts DEF stopGeneration, kept, FlushAnd, Generating, RequestsOK, RefsOK,
     FlagsOK, Request, StreamRefs
<1>6. ASSUME handleEditOpenChange PROVE StreamRefs'
  BY <1>6, NatFacts DEF handleEditOpenChange, requests, refs, buffers, kept, storage,
     RequestsOK, RefsOK, FlagsOK, Request, StreamRefs
<1>7. ASSUME handleClearMessages PROVE StreamRefs'
  BY <1>7, NatFacts DEF handleClearMessages, requests, refs, buffers, kept, Generating,
     RequestsOK, RefsOK, FlagsOK, Request, StreamRefs
<1>8. ASSUME NEW r \in Request, handleSendMessage(r) PROVE StreamRefs'
  BY <1>8, SendChatStreams DEF handleSendMessage
<1>9. ASSUME NEW r \in Request, handleStreamUpdate(r) PROVE StreamRefs'
  BY <1>9, NatFacts DEF handleStreamUpdate, refs, kept, storage, RequestsOK,
     RefsOK, FlagsOK, Request, StreamRefs
<1>10. ASSUME NEW r \in Request, StreamEnds(r) PROVE StreamRefs'
  BY <1>10, NatFacts DEF StreamEnds, kept, FlushAnd, RequestsOK, RefsOK, FlagsOK, Request,
     StreamRefs
<1>11. ASSUME NEW r \in Request, StreamDropped(r) PROVE StreamRefs'
  BY <1>11, NatFacts DEF StreamDropped, refs, buffers, kept, storage, RequestsOK, RefsOK,
     FlagsOK, Request, StreamRefs
<1>12. ASSUME NEW r \in Request, PlainReturns(r) PROVE StreamRefs'
  BY <1>12, NatFacts DEF PlainReturns, buffers, kept, FlushAnd, Finally, RequestsOK, RefsOK,
     FlagsOK, Request, StreamRefs
<1>13. ASSUME NEW r \in Request, LateReport(r) PROVE StreamRefs'
  BY <1>13, NatFacts DEF LateReport, refs, buffers, RequestsOK, RefsOK, FlagsOK,
     Request, StreamRefs
<1>14. ASSUME NEW r \in Request, NEW i \in DOMAIN messages, handleRegenerateMessage(i, r)
      PROVE  StreamRefs'
  BY <1>14, SendChatStreams DEF handleRegenerateMessage
<1>15. ASSUME NEW r \in Request, NEW i \in DOMAIN messages, SaveEditAndSubmit(i, r)
      PROVE  StreamRefs'
  BY <1>15, SendChatStreams DEF SaveEditAndSubmit
<1>16. ASSUME NEW i \in DOMAIN messages, handleEditMessage(i) PROVE StreamRefs'
  BY <1>16, NatFacts DEF handleEditMessage, requests, refs, buffers, kept, storage,
     Generating, RequestsOK, RefsOK, FlagsOK, Request, StreamRefs
<1>17. ASSUME NEW i \in DOMAIN messages, SaveEdit(i) PROVE StreamRefs'
  BY <1>17, NatFacts DEF SaveEdit, requests, refs, buffers, kept, RequestsOK, RefsOK,
     FlagsOK, Request, StreamRefs
<1>18. ASSUME NEW i \in DOMAIN messages, handleDeleteMessage(i) PROVE StreamRefs'
  BY <1>18, NatFacts DEF handleDeleteMessage, requests, refs, buffers, kept, Generating,
     RequestsOK, RefsOK, FlagsOK, Request, StreamRefs
<1>19. ASSUME NEW r \in Request, LateChunk(r) PROVE StreamRefs'
  BY <1>19 DEF LateChunk, refs, StreamRefs
<1> QED
  BY <1>1, <1>2, <1>3, <1>4, <1>5, <1>6, <1>7, <1>8, <1>9, <1>10, <1>11, <1>12, <1>13, <1>14,
     <1>15, <1>16, <1>17, <1>18, <1>19 DEF Next

LEMMA PlainRefsStep ==
    ASSUME RequestsOK, StreamRefs, PlainRefs, Next
    PROVE  PlainRefs'
<1>1. ASSUME FlushTimer PROVE PlainRefs'
  BY <1>1, NatFacts DEF FlushTimer, requests, refs, kept, FlushAnd, RequestsOK, RefsOK,
     FlagsOK, Request, StreamRefs, PlainRefs
<1>2. ASSUME SaveTimer PROVE PlainRefs'
  BY <1>2, NatFacts DEF SaveTimer, requests, refs, buffers, RequestsOK, RefsOK, FlagsOK,
     Request, StreamRefs, PlainRefs
<1>3. ASSUME Leave PROVE PlainRefs'
  BY <1>3, NatFacts DEF Leave, Mount, LeaveWith, RequestsOK, RefsOK, FlagsOK, Request,
     StreamRefs, PlainRefs
<1>4. ASSUME Reload PROVE PlainRefs'
  BY <1>4, NatFacts DEF Reload, Mount, RequestsOK, RefsOK, FlagsOK, Request, StreamRefs,
     PlainRefs
<1>5. ASSUME stopGeneration PROVE PlainRefs'
  BY <1>5, NatFacts DEF stopGeneration, kept, FlushAnd, Generating, RequestsOK, RefsOK,
     FlagsOK, Request, StreamRefs, PlainRefs
<1>6. ASSUME handleEditOpenChange PROVE PlainRefs'
  BY <1>6, NatFacts DEF handleEditOpenChange, requests, refs, buffers, kept, storage,
     RequestsOK, RefsOK, FlagsOK, Request, StreamRefs, PlainRefs
<1>7. ASSUME handleClearMessages PROVE PlainRefs'
  BY <1>7, NatFacts DEF handleClearMessages, requests, refs, buffers, kept, Generating,
     RequestsOK, RefsOK, FlagsOK, Request, StreamRefs, PlainRefs
<1>8. ASSUME NEW r \in Request, handleSendMessage(r) PROVE PlainRefs'
  BY <1>8, NatFacts DEF handleSendMessage, buffers, kept, sendChat, Generating, RequestsOK,
     RefsOK, FlagsOK, Request, StreamRefs, PlainRefs
<1>9. ASSUME NEW r \in Request, handleStreamUpdate(r) PROVE PlainRefs'
  BY <1>9, NatFacts DEF handleStreamUpdate, refs, kept, storage, RequestsOK,
     RefsOK, FlagsOK, Request, StreamRefs, PlainRefs
<1>10. ASSUME NEW r \in Request, StreamEnds(r) PROVE PlainRefs'
  BY <1>10, NatFacts DEF StreamEnds, kept, FlushAnd, RequestsOK, RefsOK, FlagsOK, Request,
     StreamRefs, PlainRefs
<1>11. ASSUME NEW r \in Request, StreamDropped(r) PROVE PlainRefs'
  BY <1>11, NatFacts DEF StreamDropped, refs, buffers, kept, storage, RequestsOK, RefsOK,
     FlagsOK, Request, StreamRefs, PlainRefs
<1>12. ASSUME NEW r \in Request, PlainReturns(r) PROVE PlainRefs'
  BY <1>12, NatFacts DEF PlainReturns, buffers, kept, FlushAnd, Finally, RequestsOK, RefsOK,
     FlagsOK, Request, StreamRefs, PlainRefs
<1>13. ASSUME NEW r \in Request, LateReport(r) PROVE PlainRefs'
  BY <1>13, NatFacts DEF LateReport, refs, buffers, RequestsOK, RefsOK, FlagsOK,
     Request, StreamRefs, PlainRefs
<1>14. ASSUME NEW r \in Request, NEW i \in DOMAIN messages, handleRegenerateMessage(i, r)
      PROVE  PlainRefs'
  BY <1>14, NatFacts DEF handleRegenerateMessage, buffers, kept, sendChat, Generating,
     RequestsOK, RefsOK, FlagsOK, Request, StreamRefs, PlainRefs
<1>15. ASSUME NEW r \in Request, NEW i \in DOMAIN messages, SaveEditAndSubmit(i, r)
      PROVE  PlainRefs'
  BY <1>15, NatFacts DEF SaveEditAndSubmit, buffers, kept, sendChat, Generating, RequestsOK,
     RefsOK, FlagsOK, Request, StreamRefs, PlainRefs
<1>16. ASSUME NEW i \in DOMAIN messages, handleEditMessage(i) PROVE PlainRefs'
  BY <1>16, NatFacts DEF handleEditMessage, requests, refs, buffers, kept, storage,
     Generating, RequestsOK, RefsOK, FlagsOK, Request, StreamRefs, PlainRefs
<1>17. ASSUME NEW i \in DOMAIN messages, SaveEdit(i) PROVE PlainRefs'
  BY <1>17, NatFacts DEF SaveEdit, requests, refs, buffers, kept, RequestsOK, RefsOK,
     FlagsOK, Request, StreamRefs, PlainRefs
<1>18. ASSUME NEW i \in DOMAIN messages, handleDeleteMessage(i) PROVE PlainRefs'
  BY <1>18, NatFacts DEF handleDeleteMessage, requests, refs, buffers, kept, Generating,
     RequestsOK, RefsOK, FlagsOK, Request, StreamRefs, PlainRefs
<1>19. ASSUME NEW r \in Request, LateChunk(r) PROVE PlainRefs'
  BY <1>19 DEF LateChunk, refs, PlainRefs
<1> QED
  BY <1>1, <1>2, <1>3, <1>4, <1>5, <1>6, <1>7, <1>8, <1>9, <1>10, <1>11, <1>12, <1>13, <1>14,
     <1>15, <1>16, <1>17, <1>18, <1>19 DEF Next

LEMMA AwaitingBySend ==
    ASSUME RequestsOK, StreamRefs, Awaiting, NEW r \in Request, sendChat(r)
    PROVE  Awaiting'
<1> SUFFICES ASSUME ~overlapped', NEW p \in Request, stage'[p] = "open"
             PROVE  /\ Generating'
                    /\ ~stream'[p] => requestId' = p /\ controller' = p /\ isRequesting'
                    /\ \A q \in Request : stage'[q] = "open" => q = p
  BY DEF Awaiting, Generating
<1>1. isRequesting' /\ Generating'
  BY DEF sendChat, Generating
<1>2. ~overlapped /\ ~Generating
  BY DEF sendChat, RequestsOK, FlagsOK
<1>3. \A q \in Request : stage[q] # "open"
  BY <1>2 DEF Awaiting
<1>4. \A q \in Request : stage'[q] = "open" => q = r
  BY <1>3 DEF sendChat, RequestsOK, RefsOK
<1>5. p = r
  BY <1>4
<1>6. ~stream'[r] => requestId' = r /\ controller' = r
  BY DEF sendChat, RequestsOK, RefsOK
<1> QED
  BY <1>1, <1>4, <1>5, <1>6

LEMMA AwaitingStep ==
    ASSUME RequestsOK, StreamRefs, Awaiting, Next
    PROVE  Awaiting'
<1>1. ASSUME FlushTimer PROVE Awaiting'
  BY <1>1, NatFacts DEF FlushTimer, requests, refs, kept, FlushAnd, RequestsOK, RefsOK,
     FlagsOK, Request, StreamRefs, Awaiting, Generating
<1>2. ASSUME SaveTimer PROVE Awaiting'
  BY <1>2, NatFacts DEF SaveTimer, requests, refs, buffers, RequestsOK, RefsOK, FlagsOK,
     Request, StreamRefs, Awaiting, Generating
<1>3. ASSUME Leave PROVE Awaiting'
  BY <1>3, NatFacts DEF Leave, Mount, LeaveWith, RequestsOK, RefsOK, FlagsOK, Request,
     StreamRefs, Awaiting, Generating
<1>4. ASSUME Reload PROVE Awaiting'
  BY <1>4, NatFacts DEF Reload, Mount, RequestsOK, RefsOK, FlagsOK, Request, StreamRefs,
     Awaiting, Generating
<1>5. ASSUME stopGeneration PROVE Awaiting'
  BY <1>5, NatFacts DEF stopGeneration, kept, FlushAnd, Generating, RequestsOK, RefsOK,
     FlagsOK, Request, StreamRefs, Awaiting
<1>6. ASSUME handleEditOpenChange PROVE Awaiting'
  BY <1>6, NatFacts DEF handleEditOpenChange, requests, refs, buffers, kept, storage,
     RequestsOK, RefsOK, FlagsOK, Request, StreamRefs, Awaiting, Generating
<1>7. ASSUME handleClearMessages PROVE Awaiting'
  BY <1>7, NatFacts DEF handleClearMessages, requests, refs, buffers, kept, Generating,
     RequestsOK, RefsOK, FlagsOK, Request, StreamRefs, Awaiting
<1>8. ASSUME NEW r \in Request, handleSendMessage(r) PROVE Awaiting'
  BY <1>8, AwaitingBySend DEF handleSendMessage
<1>9. ASSUME NEW r \in Request, handleStreamUpdate(r) PROVE Awaiting'
  BY <1>9, NatFacts DEF handleStreamUpdate, refs, kept, storage, RequestsOK,
     RefsOK, FlagsOK, Request, StreamRefs, Awaiting, Generating
<1>10. ASSUME NEW r \in Request, StreamEnds(r) PROVE Awaiting'
  BY <1>10, NatFacts DEF StreamEnds, kept, FlushAnd, RequestsOK, RefsOK, FlagsOK, Request,
     StreamRefs, Awaiting, Generating
<1>11. ASSUME NEW r \in Request, StreamDropped(r) PROVE Awaiting'
  BY <1>11, NatFacts DEF StreamDropped, refs, buffers, kept, storage, RequestsOK, RefsOK,
     FlagsOK, Request, StreamRefs, Awaiting, Generating
<1>12. ASSUME NEW r \in Request, PlainReturns(r) PROVE Awaiting'
  BY <1>12, NatFacts DEF PlainReturns, buffers, kept, FlushAnd, Finally, RequestsOK, RefsOK,
     FlagsOK, Request, StreamRefs, Awaiting, Generating
<1>13. ASSUME NEW r \in Request, LateReport(r) PROVE Awaiting'
  BY <1>13, NatFacts DEF LateReport, refs, buffers, RequestsOK, RefsOK, FlagsOK,
     Request, StreamRefs, Awaiting, Generating
<1>14. ASSUME NEW r \in Request, NEW i \in DOMAIN messages, handleRegenerateMessage(i, r)
      PROVE  Awaiting'
  BY <1>14, AwaitingBySend DEF handleRegenerateMessage
<1>15. ASSUME NEW r \in Request, NEW i \in DOMAIN messages, SaveEditAndSubmit(i, r)
      PROVE  Awaiting'
  BY <1>15, AwaitingBySend DEF SaveEditAndSubmit
<1>16. ASSUME NEW i \in DOMAIN messages, handleEditMessage(i) PROVE Awaiting'
  BY <1>16, NatFacts DEF handleEditMessage, requests, refs, buffers, kept, storage,
     Generating, RequestsOK, RefsOK, FlagsOK, Request, StreamRefs, Awaiting
<1>17. ASSUME NEW i \in DOMAIN messages, SaveEdit(i) PROVE Awaiting'
  BY <1>17, NatFacts DEF SaveEdit, requests, refs, buffers, kept, RequestsOK, RefsOK,
     FlagsOK, Request, StreamRefs, Awaiting, Generating
<1>18. ASSUME NEW i \in DOMAIN messages, handleDeleteMessage(i) PROVE Awaiting'
  BY <1>18, NatFacts DEF handleDeleteMessage, requests, refs, buffers, kept, Generating,
     RequestsOK, RefsOK, FlagsOK, Request, StreamRefs, Awaiting
<1>19. ASSUME NEW r \in Request, LateChunk(r) PROVE Awaiting'
  BY <1>19 DEF LateChunk, refs, Awaiting, Generating
<1> QED
  BY <1>1, <1>2, <1>3, <1>4, <1>5, <1>6, <1>7, <1>8, <1>9, <1>10, <1>11, <1>12, <1>13, <1>14,
     <1>15, <1>16, <1>17, <1>18, <1>19 DEF Next

-----------------------------------------------------------------------------
(* What the steps do to conversations *)

LEMMA FlushAndFacts ==
    ASSUME ConversationsOK, TailPending(messages), NEW m, Flushed # <<>> => m \in Message, FlushAnd(m)
    PROVE  /\ messages' \in Conversation /\ TailPending(messages') /\ buffer' = <<>>
           /\ (Flushed # <<>> => ~IsPending(m)) => NonePending(messages')
<1>1. Flushed \in Conversation /\ TailPending(Flushed)
  BY FlushedFacts
<1>2. messages' = updateLastAssistantMessage(Flushed, m) /\ buffer' = <<>>
  BY DEF FlushAnd, updateMessages
<1> QED
  BY <1>1, <1>2, UpdateLast, UpdateTail

LEMMA FlushedChanged ==
    ASSUME ConversationsOK, TailPending(messages), Flushed # <<>>
    PROVE  LET m == Last(Flushed) IN
           /\ m \in Message
           /\ CompleteIfPending(m) \in Message /\ ~IsPending(CompleteIfPending(m))
           /\ WithError(m) \in Message /\ ~IsPending(WithError(m))
BY FlushedFacts, ChangedMessages

\* A question, or the beginning of a conversation, and then an answer under way.
LEMMA ThenLoading ==
    ASSUME NEW ms \in Conversation, NEW n \in 0..Len(ms), NEW r \in Request,
           \A i \in 1..n : ~IsPending(ms[i])
    PROVE  LET ls == SubSeq(ms, 1, n) \o <<Loading(r)>> IN
           /\ ls \in Conversation /\ TailPending(ls) /\ Len(ls) = n + 1
           /\ (\A i \in 1..n : ls[i] = ms[i]) /\ ls[n + 1] = Loading(r)
<1> DEFINE ps == SubSeq(ms, 1, n)
           qs == <<Loading(r)>>
           ls == ps \o qs
<1>1. Len(ms) \in Nat /\ \A i \in 1..Len(ms) : ms[i] \in Message
  BY LenProperties, ElementOfSeq DEF Conversation
<1>2. ps \in Seq(Message) /\ Len(ps) = n /\ \A i \in 1..n : ps[i] = ms[i]
  BY <1>1, SubSeqProperties
<1>3. qs \in Seq(Message) /\ Len(qs) = 1 /\ qs[1] = Loading(r)
  BY MadeMessages
<1> HIDE DEF ps, qs
<1>4. /\ ls \in Seq(Message) /\ Len(ls) = n + 1 /\ \A i \in 1..n : ls[i] = ms[i]
      /\ ls[n + 1] = Loading(r)
  <2>1. /\ ls \in Seq(Message) /\ Len(ls) = Len(ps) + Len(qs)
        /\ \A i \in 1..Len(ps) + Len(qs) : ls[i] = IF i <= Len(ps) THEN ps[i] ELSE qs[i - Len(ps)]
    BY <1>2, <1>3, ConcatProperties
  <2> HIDE DEF ls
  <2>2. n + 1 \in 1..n + 1 /\ ~(n + 1 <= n) /\ n + 1 - n = 1
    BY <1>1
  <2> QED
    BY <1>1, <1>2, <1>3, <2>1, <2>2
<1> HIDE DEF ls
<1>5. ls \in Conversation /\ TailPending(ls)
  BY <1>1, <1>4 DEF TailPending, Conversation
<1> QED
  BY <1>4, <1>5 DEF ls, ps, qs

LEMMA ThenQuestion ==
    ASSUME NEW ms \in Conversation, NEW r \in Request, NonePending(ms)
    PROVE  LET ls == ms \o <<User(r), Loading(r)>> IN
           /\ ls \in Conversation /\ TailPending(ls) /\ Len(ls) = Len(ms) + 2
           /\ (\A i \in 1..Len(ms) : ls[i] = ms[i])
           /\ ls[Len(ms) + 1] = User(r) /\ ls[Len(ms) + 2] = Loading(r)
<1> DEFINE qs == <<User(r), Loading(r)>>
           ls == ms \o qs
<1>1. Len(ms) \in Nat
  BY LenProperties DEF Conversation
<1>2. qs \in Seq(Message) /\ Len(qs) = 2 /\ qs[1] = User(r) /\ qs[2] = Loading(r)
      /\ ~IsPending(User(r))
  BY MadeMessages
<1> HIDE DEF qs
<1>3. /\ ls \in Seq(Message) /\ Len(ls) = Len(ms) + 2
      /\ \A i \in 1..Len(ms) : ls[i] = ms[i]
      /\ ls[Len(ms) + 1] = User(r) /\ ls[Len(ms) + 2] = Loading(r)
  <2>1. /\ ls \in Seq(Message) /\ Len(ls) = Len(ms) + Len(qs)
        /\ \A i \in 1..Len(ms) + Len(qs) : ls[i] = IF i <= Len(ms) THEN ms[i] ELSE qs[i - Len(ms)]
    BY <1>2, ConcatProperties DEF Conversation
  <2> HIDE DEF ls
  <2>2. Len(ms) + 1 \in 1..Len(ms) + Len(qs) /\ ~(Len(ms) + 1 <= Len(ms)) /\ Len(ms) + 1 - Len(ms) = 1
    BY <1>1, <1>2
  <2>3. Len(ms) + 2 \in 1..Len(ms) + Len(qs) /\ ~(Len(ms) + 2 <= Len(ms)) /\ Len(ms) + 2 - Len(ms) = 2
    BY <1>1, <1>2
  <2> QED
    BY <1>1, <1>2, <2>1, <2>2, <2>3
<1> HIDE DEF ls
<1>4. \A i \in 1..Len(ls) - 1 : i \in 1..Len(ms) \/ i = Len(ms) + 1
  BY <1>1, <1>3
<1>5. ls \in Conversation /\ TailPending(ls)
  BY <1>2, <1>3, <1>4 DEF TailPending, NonePending, Conversation
<1> QED
  BY <1>3, <1>5 DEF ls, qs

\* An edit changes the text of one message and nothing else.
LEMMA EditFacts ==
    ASSUME NEW ms \in Conversation, NEW i \in DOMAIN ms
    PROVE  LET es == [ms EXCEPT ![i].text = Edited] IN
           /\ es \in Conversation /\ Len(es) = Len(ms)
           /\ \A j \in 1..Len(ms) : IsPending(es[j]) <=> IsPending(ms[j])
           /\ \A j \in 1..Len(ms) : j # i => es[j] = ms[j]
           /\ es[i].from = ms[i].from /\ es[i].key = ms[i].key /\ es[i].text = Edited
<1> DEFINE m == [ms[i] EXCEPT !.text = Edited]
           es == [ms EXCEPT ![i] = m]
<1>1. i \in 1..Len(ms) /\ ms[i] \in Message
  BY LenProperties, ElementOfSeq DEF Conversation
<1>2. /\ m \in Message /\ (IsPending(m) <=> IsPending(ms[i]))
      /\ m.from = ms[i].from /\ m.key = ms[i].key /\ m.text = Edited
  BY <1>1, MadeMessages DEF Message, IsPending
<1>3. es = [ms EXCEPT ![i].text = Edited]
  OBVIOUS
<1> HIDE DEF m
<1>4. /\ es \in Seq(Message) /\ Len(es) = Len(ms)
      /\ \A j \in 1..Len(ms) : es[j] = IF j = i THEN m ELSE ms[j]
  BY <1>1, <1>2, ExceptSeq DEF Conversation
<1> HIDE DEF es
<1>5. \A j \in 1..Len(ms) : IsPending(es[j]) <=> IsPending(ms[j])
  BY <1>2, <1>4
<1> QED
  BY <1>1, <1>2, <1>3, <1>4, <1>5 DEF Conversation

LEMMA DeleteFacts ==
    ASSUME NEW ms \in Conversation, NEW i \in DOMAIN ms, NonePending(ms)
    PROVE  /\ RemoveAt(ms, i) \in Conversation /\ NonePending(RemoveAt(ms, i))
           /\ \A j \in 1..Len(RemoveAt(ms, i)) : \E h \in 1..Len(ms) : RemoveAt(ms, i)[j] = ms[h]
<1> DEFINE as == SubSeq(ms, 1, i - 1)
           bs == SubSeq(ms, i + 1, Len(ms))
<1>1. Len(ms) \in Nat /\ i \in 1..Len(ms) /\ \A j \in 1..Len(ms) : ms[j] \in Message
  BY LenProperties, ElementOfSeq DEF Conversation
<1>2. as \in Seq(Message) /\ Len(as) = i - 1 /\ \A j \in 1..i - 1 : as[j] = ms[j]
  BY <1>1, SubSeqProperties
<1>3. bs \in Seq(Message) /\ Len(bs) = Len(ms) - i /\ \A j \in 1..Len(ms) - i : bs[j] = ms[i + j]
  <2>1. \A j \in i + 1..Len(ms) : ms[j] \in Message
    BY <1>1
  <2> QED
    BY <1>1, <2>1, SubSeqProperties
<1> HIDE DEF as, bs
<1>4. /\ as \o bs \in Seq(Message) /\ Len(as \o bs) = Len(ms) - 1
      /\ \A j \in 1..Len(ms) - 1 : (as \o bs)[j] = IF j <= i - 1 THEN as[j] ELSE bs[j - (i - 1)]
  <2>1. /\ as \o bs \in Seq(Message) /\ Len(as \o bs) = Len(as) + Len(bs)
        /\ \A j \in 1..Len(as) + Len(bs) : (as \o bs)[j] = IF j <= Len(as) THEN as[j] ELSE bs[j - Len(as)]
    BY <1>2, <1>3, ConcatProperties
  <2>2. Len(as) = i - 1 /\ Len(as) + Len(bs) = Len(ms) - 1
    BY <1>1, <1>2, <1>3
  <2> QED
    BY <2>1, <2>2
<1>5. ASSUME NEW j \in 1..Len(ms) - 1
      PROVE  ~IsPending((as \o bs)[j]) /\ \E h \in 1..Len(ms) : (as \o bs)[j] = ms[h]
  <2>1. CASE j <= i - 1
    <3>1. j \in 1..i - 1 /\ j \in 1..Len(ms)
      BY <1>1, <1>5, <2>1
    <3> QED
      BY <1>2, <1>4, <1>5, <2>1, <3>1 DEF NonePending
  <2>2. CASE ~(j <= i - 1)
    <3>1. j - (i - 1) \in 1..Len(ms) - i /\ i + (j - (i - 1)) \in 1..Len(ms)
      BY <1>1, <1>5, <2>2
    <3> QED
      BY <1>3, <1>4, <1>5, <2>2, <3>1 DEF NonePending
  <2> QED
    BY <2>1, <2>2
<1> QED
  BY <1>4, <1>5 DEF RemoveAt, NonePending, Conversation, as, bs

LEMMA EmptyText == <<>> \in Text /\ <<>> \in Conversation /\ TailPending(<<>>) /\ NonePending(<<>>)
BY EmptySeq DEF Text, Conversation, TailPending, NonePending

LEMMA NoneIsTail ==
    ASSUME NEW ms \in Conversation, NonePending(ms)
    PROVE  TailPending(ms)
<1>1. Len(ms) \in Nat
  BY LenProperties DEF Conversation
<1> QED
  BY <1>1 DEF NonePending, TailPending

LEMMA IdleMessages ==
    ASSUME ConversationsOK
    PROVE  /\ IdleIsFinal <=> (~Generating => NonePending(messages) /\ buffer = <<>>)
           /\ IdleIsFinal /\ ~Generating => NonePending(messages)
BY LenProperties DEF IdleIsFinal, ConversationsOK, Conversation, NonePending

LEMMA ChunkText ==
    ASSUME SaidOK, NEW r \in Request, NEW d \in Delta
    PROVE  d \in Text /\ Chunk(r, d) \in Text /\ said[r] \o d \in Text
<1>1. said[r] \in Text /\ d \in Text
  BY MadeMessages DEF SaidOK
<1>2. said[r] \o d \in Text
  BY <1>1, ConcatProperties DEF Text
<1> QED
  BY <1>1, <1>2 DEF Chunk

LEMMA ConversationsStep ==
    ASSUME ConversationsOK, RequestsOK, SaidOK, Tails, IdleIsFinal, Next
    PROVE  ConversationsOK' /\ Tails'
<1>1. ASSUME FlushTimer PROVE ConversationsOK' /\ Tails'
  BY <1>1, FlushedChanged, FlushAndFacts, EmptyText
   DEF FlushTimer, kept, ConversationsOK, Tails
<1>2. ASSUME SaveTimer PROVE ConversationsOK' /\ Tails'
  BY <1>2, TrimFacts, TrimTail DEF SaveTimer, buffers, ConversationsOK, Tails
<1>3. ASSUME Leave PROVE ConversationsOK' /\ Tails'
  <2>1. trimMessages(messages) \in Conversation /\ TailPending(trimMessages(messages))
    BY TrimFacts, TrimTail DEF ConversationsOK, Tails
  <2>2. PICK ms \in Conversation : TailPending(ms) /\ LeaveWith(ms)
    BY <1>3, <2>1 DEF Leave, ConversationsOK, Tails
  <2>3. /\ messages' = loadMessages(ms) /\ stored' = loadMessages(ms) /\ buffer' = <<>>
        /\ left' = [q \in Request |-> IF stage[q] = "open" THEN messages ELSE left[q]]
        /\ waiting' = [q \in Request |-> IF stage[q] = "open" THEN buffer ELSE waiting[q]]
    BY <2>2 DEF LeaveWith, Mount
  <2>4. messages \in Conversation /\ TailPending(messages) /\ buffer \in Text
    BY DEF ConversationsOK, Tails
  <2>5. \A q \in Request : left'[q] \in Conversation /\ TailPending(left'[q])
    BY <2>3, <2>4 DEF ConversationsOK, Tails
  <2>6. left' \in [Request -> Conversation] /\ waiting' \in [Request -> Text]
    BY <2>3, <2>4 DEF ConversationsOK
  <2>7. loadMessages(ms) \in Conversation /\ Len(loadMessages(ms)) <= MaxStored /\ TailPending(loadMessages(ms))
    BY <2>2, LoadFacts, NoneIsTail
  <2> QED
    BY <2>3, <2>5, <2>6, <2>7, EmptyText DEF ConversationsOK, Tails
<1>4. ASSUME Reload PROVE ConversationsOK' /\ Tails'
  <2>1. /\ messages' = loadMessages(stored) /\ stored' = loadMessages(stored) /\ buffer' = <<>>
        /\ left' = [q \in Request |-> <<>>] /\ waiting' = [q \in Request |-> <<>>]
    BY <1>4 DEF Reload, Mount
  <2>2. /\ loadMessages(stored) \in Conversation /\ Len(loadMessages(stored)) <= MaxStored
        /\ TailPending(loadMessages(stored))
    BY LoadFacts, NoneIsTail DEF ConversationsOK, Tails
  <2> QED
    BY <2>1, <2>2, EmptyText DEF ConversationsOK, Tails
<1>5. ASSUME stopGeneration PROVE ConversationsOK' /\ Tails'
  BY <1>5, FlushedChanged, FlushAndFacts, EmptyText
   DEF stopGeneration, kept, ConversationsOK, Tails
<1>6. ASSUME handleEditOpenChange PROVE ConversationsOK' /\ Tails'
  BY <1>6 DEF handleEditOpenChange, buffers, storage, kept, ConversationsOK, Tails
<1>7. ASSUME handleClearMessages PROVE ConversationsOK' /\ Tails'
  BY <1>7, EmptyText DEF handleClearMessages, updateMessages, buffers, kept, ConversationsOK,
     Tails
<1>8. ASSUME NEW r \in Request, handleSendMessage(r) PROVE ConversationsOK' /\ Tails'
  <2>1. NonePending(messages)
    BY <1>8, IdleMessages DEF handleSendMessage
  <2>2. messages' \in Conversation /\ TailPending(messages')
    BY <1>8, <2>1, ThenQuestion DEF handleSendMessage, updateMessages, ConversationsOK
  <2> QED
    BY <1>8, <2>2 DEF handleSendMessage, sendChat, buffers, kept, ConversationsOK, Tails
<1>9. ASSUME NEW r \in Request, handleStreamUpdate(r) PROVE ConversationsOK' /\ Tails'
  <2>1. PICK d \in Delta : buffer' = mergePendingStreamChunk(buffer, Chunk(r, d))
    BY <1>9 DEF handleStreamUpdate
  <2>2. buffer' \in Text
    BY <2>1, ChunkText, AppendableText DEF ConversationsOK
  <2> QED
    BY <1>9, <2>2 DEF handleStreamUpdate, storage, kept, ConversationsOK, Tails
<1>10. ASSUME NEW r \in Request, StreamEnds(r) PROVE ConversationsOK' /\ Tails'
  BY <1>10, FlushedChanged, FlushAndFacts, EmptyText
   DEF StreamEnds, kept, ConversationsOK, Tails
<1>11. ASSUME NEW r \in Request, StreamDropped(r) PROVE ConversationsOK' /\ Tails'
  BY <1>11 DEF StreamDropped, buffers, storage, kept, ConversationsOK, Tails
<1>12. ASSUME NEW r \in Request, PlainReturns(r) PROVE ConversationsOK' /\ Tails'
  <2>1. UNCHANGED <<stored, left, waiting>>
    BY <1>12 DEF PlainReturns, kept
  <2>2. messages' \in Conversation /\ TailPending(messages') /\ buffer' \in Text
    <3>1. \A d \in Delta : messages # <<>> => WithAnswer(Last(messages), d) \in Message
      BY LastMessage, ChangedMessages DEF ConversationsOK
    <3>2. ASSUME NEW d \in Delta, UNCHANGED buffers,
                 updateMessages(updateLastAssistantMessage(messages, WithAnswer(Last(messages), d)))
          PROVE  messages' \in Conversation /\ TailPending(messages') /\ buffer' \in Text
      BY <3>1, <3>2, UpdateLast, UpdateTail DEF updateMessages, buffers, ConversationsOK, Tails
    <3>3. CASE FlushAnd(WithError(Last(Flushed)))
      BY <3>3, FlushedChanged, FlushAndFacts, EmptyText DEF Tails
    <3>4. CASE UNCHANGED <<messages, saveTimer, buffers, said>>
      BY <3>4 DEF buffers, ConversationsOK, Tails
    <3> QED
      BY <1>12, <3>2, <3>3, <3>4 DEF PlainReturns
  <2> QED
    BY <2>1, <2>2 DEF ConversationsOK, Tails
<1>13. ASSUME NEW r \in Request, LateReport(r) PROVE ConversationsOK' /\ Tails'
  <2>1. /\ left' = [left EXCEPT ![r] = <<>>] /\ waiting' = [waiting EXCEPT ![r] = <<>>]
        /\ UNCHANGED <<messages, buffer>>
    BY <1>13 DEF LateReport
  <2>2. /\ left' \in [Request -> Conversation] /\ waiting' \in [Request -> Text]
        /\ \A q \in Request : TailPending(left'[q])
    BY <2>1, EmptyText DEF ConversationsOK, Tails
  <2>3. ASSUME NEW m, left[r] # <<>> => m \in Message, LateSave(r, m)
        PROVE  stored' \in Conversation /\ Len(stored') <= MaxStored /\ TailPending(stored')
    <3>1. left[r] \in Conversation /\ TailPending(left[r])
      BY DEF ConversationsOK, Tails
    <3> QED
      BY <2>3, <3>1, UpdateLast, UpdateTail, TrimFacts, TrimTail DEF LateSave
  <2>4. left[r] # <<>> => Last(left[r]) \in Message
    BY LastMessage DEF ConversationsOK
  <2>5. left[r] # <<>> => /\ CompleteIfPending(Last(left[r])) \in Message
                          /\ WithError(Last(left[r])) \in Message
                          /\ \A d \in Delta : WithAnswer(Last(left[r]), d) \in Message
                          /\ applyStreamingChunk(Last(left[r]), waiting[r]) \in Message
    BY <2>4, ChangedMessages, StreamedMessage DEF ConversationsOK
  <2>6. stored' \in Conversation /\ Len(stored') <= MaxStored /\ TailPending(stored')
    <3>1. CASE UNCHANGED <<stored, late>>
      BY <3>1 DEF ConversationsOK, Tails
    <3> QED
      BY <1>13, <2>3, <2>5, <3>1 DEF LateReport
  <2> QED
    BY <2>1, <2>2, <2>6 DEF ConversationsOK, Tails
<1>14. ASSUME NEW r \in Request, NEW i \in DOMAIN messages, handleRegenerateMessage(i, r)
      PROVE  ConversationsOK' /\ Tails'
  <2> DEFINE n == IF messages[i].from = "user" THEN i ELSE i - 1
  <2>1. n \in 0..Len(messages) /\ \A j \in 1..n : ~IsPending(messages[j])
    <3>1. NonePending(messages) /\ i \in 1..Len(messages) /\ Len(messages) \in Nat
      BY <1>14, IdleMessages, LenProperties DEF handleRegenerateMessage, ConversationsOK,
         Conversation
    <3>2. n \in 0..Len(messages)
      BY <3>1
    <3> QED
      BY <3>1, <3>2 DEF NonePending
  <2>2. messages' = SubSeq(messages, 1, n) \o <<Loading(r)>>
    BY <1>14 DEF handleRegenerateMessage, updateMessages
  <2> HIDE DEF n
  <2>3. messages' \in Conversation /\ TailPending(messages')
    BY <2>1, <2>2, ThenLoading DEF ConversationsOK
  <2> QED
    BY <1>14, <2>3 DEF handleRegenerateMessage, sendChat, buffers, kept, ConversationsOK, Tails
<1>15. ASSUME NEW r \in Request, NEW i \in DOMAIN messages, SaveEditAndSubmit(i, r)
      PROVE  ConversationsOK' /\ Tails'
  <2> DEFINE es == [messages EXCEPT ![i].text = Edited]
  <2>1. /\ es \in Conversation /\ Len(es) = Len(messages)
        /\ \A j \in 1..Len(messages) : IsPending(es[j]) <=> IsPending(messages[j])
    BY EditFacts DEF ConversationsOK
  <2>2. i \in 1..Len(messages) /\ Len(messages) \in Nat /\ i \in 0..Len(es)
    BY <2>1, LenProperties DEF ConversationsOK, Conversation
  <2>3. ~IsPending(messages[i])
    BY <1>15 DEF SaveEditAndSubmit, IsPending
  <2>4. \A j \in 1..i : ~IsPending(es[j])
    BY <2>1, <2>2, <2>3 DEF Tails, TailPending
  <2>5. messages' = SubSeq(es, 1, i) \o <<Loading(r)>>
    BY <1>15 DEF SaveEditAndSubmit, updateMessages
  <2> HIDE DEF es
  <2>6. messages' \in Conversation /\ TailPending(messages')
    BY <2>1, <2>2, <2>4, <2>5, ThenLoading
  <2> QED
    BY <1>15, <2>6 DEF SaveEditAndSubmit, sendChat, buffers, kept, ConversationsOK, Tails
<1>16. ASSUME NEW i \in DOMAIN messages, handleEditMessage(i) PROVE ConversationsOK' /\ Tails'
  BY <1>16 DEF handleEditMessage, buffers, storage, kept, ConversationsOK, Tails
<1>17. ASSUME NEW i \in DOMAIN messages, SaveEdit(i) PROVE ConversationsOK' /\ Tails'
  <2> DEFINE es == [messages EXCEPT ![i].text = Edited]
  <2>1. /\ es \in Conversation /\ Len(es) = Len(messages) /\ Len(messages) \in Nat
        /\ \A j \in 1..Len(messages) : IsPending(es[j]) <=> IsPending(messages[j])
    BY EditFacts, LenProperties DEF ConversationsOK, Conversation
  <2>2. messages' = es
    BY <1>17 DEF SaveEdit, updateMessages
  <2> HIDE DEF es
  <2>3. messages' \in Conversation /\ TailPending(messages')
    BY <2>1, <2>2 DEF Tails, TailPending
  <2> QED
    BY <1>17, <2>3 DEF SaveEdit, buffers, kept, ConversationsOK, Tails
<1>18. ASSUME NEW i \in DOMAIN messages, handleDeleteMessage(i)
      PROVE  ConversationsOK' /\ Tails'
  <2>1. messages' \in Conversation /\ TailPending(messages')
    BY <1>18, IdleMessages, DeleteFacts, NoneIsTail DEF handleDeleteMessage, updateMessages,
       ConversationsOK
  <2> QED
    BY <1>18, <2>1 DEF handleDeleteMessage, buffers, kept, ConversationsOK, Tails
<1>19. ASSUME NEW r \in Request, LateChunk(r) PROVE ConversationsOK' /\ Tails'
  <2>1. PICK d \in Delta : waiting' = [waiting EXCEPT ![r] = mergePendingStreamChunk(@, Chunk(r, d))]
    BY <1>19 DEF LateChunk
  <2>2. mergePendingStreamChunk(waiting[r], Chunk(r, d)) \in Text
    BY ChunkText, AppendableText DEF ConversationsOK
  <2>3. waiting' \in [Request -> Text]
    BY <2>1, <2>2 DEF ConversationsOK
  <2> QED
    BY <1>19, <2>3 DEF LateChunk, ConversationsOK, Tails
<1> QED
  BY <1>1, <1>2, <1>3, <1>4, <1>5, <1>6, <1>7, <1>8, <1>9, <1>10, <1>11, <1>12, <1>13, <1>14,
     <1>15, <1>16, <1>17, <1>18, <1>19 DEF Next

\* What was said to a request, and which were mistaken.
LEMMA SaidStep ==
    ASSUME ConversationsOK, SaidOK, Next
    PROVE  SaidOK'
<1>1. ASSUME NEW r \in Request, NEW t \in Text, said' = [said EXCEPT ![r] = t] PROVE said' \in [Request -> Text]
  BY <1>1 DEF SaidOK
<1>2. \A r \in 0..MaxRequests : \A t, c : Mistaken(r, t, c) \subseteq 0..MaxRequests
  BY DEF Mistaken
<1>3. \A ms \in Conversation : \A c : FlushMistakes(ms, c) \subseteq 0..MaxRequests
  <2> SUFFICES ASSUME NEW ms \in Conversation, NEW c, ms # <<>>
               PROVE  Mistaken(Last(ms).key, Last(ms).text, c) \subseteq 0..MaxRequests
    BY DEF FlushMistakes
  <2> QED
    BY <1>2, LastMessage DEF Message
<1>4. \A r \in Request : r \in 0..MaxRequests
  BY NatFacts DEF Request
<1>5. ASSUME NEW m, FlushAnd(m) PROVE mistaken' \subseteq 0..MaxRequests
  BY <1>3, <1>5 DEF FlushAnd, SaidOK, ConversationsOK
<1>6. UNCHANGED <<said, mistaken>> => SaidOK'
  BY DEF SaidOK
<1>7. ASSUME NEW m, FlushAnd(m), UNCHANGED said PROVE SaidOK'
  BY <1>5, <1>7 DEF SaidOK
<1>8. ASSUME NEW r \in Request, PlainReturns(r) PROVE SaidOK'
  <2>1. CASE UNCHANGED buffers /\ \E d \in Delta : said' = [said EXCEPT ![r] = d]
    BY <1>1, <2>1, MadeMessages DEF buffers, SaidOK
  <2>2. CASE UNCHANGED said /\ FlushAnd(WithError(Last(Flushed)))
    BY <1>7, <2>2
  <2>3. CASE UNCHANGED <<buffers, said>>
    BY <1>6, <2>3 DEF buffers
  <2> QED
    BY <1>8, <2>1, <2>2, <2>3 DEF PlainReturns
<1>9. ASSUME NEW r \in Request, handleStreamUpdate(r) PROVE SaidOK'
  <2>1. PICK d \in Delta : /\ said' = [said EXCEPT ![r] = said[r] \o d]
                          /\ mistaken' = mistaken \union Mistaken(r, buffer, Chunk(r, d))
    BY <1>9 DEF handleStreamUpdate, SaidOK
  <2> QED
    BY <1>1, <1>2, <1>4, <2>1, ChunkText DEF SaidOK
<1>10. ASSUME NEW r \in Request, LateChunk(r) PROVE SaidOK'
  <2>1. PICK d \in Delta : /\ said' = [said EXCEPT ![r] = said[r] \o d]
                          /\ mistaken' = mistaken \union Mistaken(r, waiting[r], Chunk(r, d))
    BY <1>10 DEF LateChunk, SaidOK
  <2> QED
    BY <1>1, <1>2, <1>4, <2>1, ChunkText DEF SaidOK
<1>11. ASSUME NEW r \in Request, LateReport(r) PROVE SaidOK'
  <2>1. CASE UNCHANGED said /\ mistaken' = mistaken \union FlushMistakes(left[r], waiting[r])
    BY <1>3, <2>1 DEF SaidOK, ConversationsOK
  <2>2. CASE UNCHANGED mistaken /\ \E d \in Delta : said' = [said EXCEPT ![r] = d]
    BY <1>1, <2>2, MadeMessages DEF SaidOK
  <2>3. CASE UNCHANGED <<said, mistaken>>
    BY <1>6, <2>3
  <2> QED
    BY <1>11, <2>1, <2>2, <2>3 DEF LateReport
<1>12. FlushTimer \/ stopGeneration \/ (\E r \in Request : StreamEnds(r)) => SaidOK'
  BY <1>7 DEF FlushTimer, stopGeneration, StreamEnds, requests
<1>13. \/ SaveTimer \/ Leave \/ Reload \/ handleEditOpenChange \/ handleClearMessages
       \/ \E r \in Request : StreamDropped(r) \/ handleSendMessage(r)
       => UNCHANGED <<said, mistaken>>
  BY DEF SaveTimer, Leave, LeaveWith, Reload, Mount, handleEditOpenChange, handleClearMessages,
     StreamDropped, handleSendMessage, sendChat, requests, buffers
<1>14. ASSUME NEW i \in DOMAIN messages
       PROVE  \/ handleEditMessage(i) \/ SaveEdit(i) \/ handleDeleteMessage(i)
              \/ \E r \in Request : handleRegenerateMessage(i, r) \/ SaveEditAndSubmit(i, r)
              => UNCHANGED <<said, mistaken>>
  BY DEF handleEditMessage, SaveEdit, handleDeleteMessage, handleRegenerateMessage,
     SaveEditAndSubmit, sendChat, requests, buffers
<1> QED
  BY <1>6, <1>8, <1>9, <1>10, <1>11, <1>12, <1>13, <1>14 DEF Next

-----------------------------------------------------------------------------
(* When nothing is being generated *)

Idle == ~Generating => NonePending(messages) /\ buffer = <<>>

LEMMA IdleStep ==
    ASSUME ConversationsOK, Tails, RequestsOK, StreamRefs, PlainRefs, Idle, Next
    PROVE  Idle'
<1>1. ASSUME FlushTimer PROVE Idle'
  <2>1. CASE ~Generating
    <3>1. Flushed = messages /\ NonePending(messages)
      BY <2>1 DEF Idle, Flushed
    <3>2. Flushed # <<>> => Last(Flushed) \in Message /\ ~IsPending(Last(Flushed))
      BY <3>1, LastMessage DEF ConversationsOK, NonePending
    <3> QED
      BY <1>1, <3>2, FlushAndFacts DEF FlushTimer, Idle, Tails
  <2>2. CASE Generating
    BY <1>1, <2>2 DEF FlushTimer, Idle, Generating
  <2> QED
    BY <2>1, <2>2
<1>2. ASSUME SaveTimer PROVE Idle'
  BY <1>2 DEF SaveTimer, buffers, Idle, Generating
<1>3. ASSUME Leave PROVE Idle'
  <2>1. trimMessages(messages) \in Conversation /\ TailPending(trimMessages(messages))
    BY TrimFacts, TrimTail DEF ConversationsOK, Tails
  <2>2. PICK ms \in Conversation : TailPending(ms) /\ LeaveWith(ms)
    BY <1>3, <2>1 DEF Leave, ConversationsOK, Tails
  <2> QED
    BY <2>2, LoadFacts DEF LeaveWith, Mount, Idle
<1>4. ASSUME Reload PROVE Idle'
  BY <1>4, LoadFacts DEF Reload, Mount, Idle, ConversationsOK, Tails
<1>5. ASSUME stopGeneration PROVE Idle'
  BY <1>5, FlushedChanged, FlushAndFacts DEF stopGeneration, Idle, Tails
<1>6. ASSUME handleEditOpenChange PROVE Idle'
  BY <1>6 DEF handleEditOpenChange, buffers, Idle, Generating
<1>7. ASSUME handleClearMessages PROVE Idle'
  BY <1>7, EmptyText DEF handleClearMessages, updateMessages, buffers, Idle, Generating
<1>8. ASSUME NEW r \in Request, handleSendMessage(r) PROVE Idle'
  BY <1>8 DEF handleSendMessage, sendChat, Idle, Generating
<1>9. ASSUME NEW r \in Request, handleStreamUpdate(r) PROVE Idle'
  BY <1>9 DEF handleStreamUpdate, StreamRefs, Idle, Generating
<1>10. ASSUME NEW r \in Request, StreamEnds(r) PROVE Idle'
  BY <1>10, FlushedChanged, FlushAndFacts DEF StreamEnds, Idle, Tails
<1>11. ASSUME NEW r \in Request, StreamDropped(r) PROVE Idle'
  BY <1>11 DEF StreamDropped, buffers, Idle, Generating
<1>12. ASSUME NEW r \in Request, PlainReturns(r) PROVE Idle'
  <2>1. stage[r] \in {"open", "aborted"} /\ UNCHANGED isStreaming
    BY <1>12 DEF PlainReturns
  <2>2. CASE isStreaming
    BY <2>1, <2>2 DEF Idle, Generating
  <2>3. CASE ~isStreaming
    <3>1. buffer = <<>>
      BY <2>3 DEF StreamRefs
    <3>2. ASSUME NEW d \in Delta, UNCHANGED buffers,
                 updateMessages(updateLastAssistantMessage(messages, WithAnswer(Last(messages), d)))
          PROVE  Idle'
      <4>1. messages # <<>> => /\ WithAnswer(Last(messages), d) \in Message
                               /\ ~IsPending(WithAnswer(Last(messages), d))
        BY LastMessage, ChangedMessages DEF ConversationsOK
      <4>2. NonePending(messages')
        BY <3>2, <4>1, UpdateTail DEF updateMessages, ConversationsOK, Tails
      <4> QED
        BY <3>1, <3>2, <4>2 DEF buffers, Idle
    <3>3. CASE FlushAnd(WithError(Last(Flushed)))
      BY <3>3, FlushedChanged, FlushAndFacts DEF Idle, Tails
    <3>4. CASE /\ stage[r] = "aborted" /\ Finally(r, isRequesting)
               /\ UNCHANGED <<messages, saveTimer, buffers, said>>
      <4>1. CASE isRequesting
        <5>1. requestId # r
          BY <2>3, <3>4, <4>1 DEF PlainRefs
        <5> QED
          BY <3>4, <4>1, <5>1 DEF Finally, Idle, Generating
      <4>2. CASE ~isRequesting
        BY <2>3, <3>4, <4>2 DEF buffers, Idle, Generating
      <4> QED
        BY <4>1, <4>2
    <3> QED
      BY <1>12, <3>2, <3>3, <3>4 DEF PlainReturns
  <2> QED
    BY <2>2, <2>3
<1>13. ASSUME NEW r \in Request, LateReport(r) PROVE Idle'
  BY <1>13 DEF LateReport, buffers, Idle, Generating
<1>14. ASSUME NEW r \in Request, NEW i \in DOMAIN messages, handleRegenerateMessage(i, r)
      PROVE  Idle'
  BY <1>14 DEF handleRegenerateMessage, sendChat, Idle, Generating
<1>15. ASSUME NEW r \in Request, NEW i \in DOMAIN messages, SaveEditAndSubmit(i, r) PROVE Idle'
  BY <1>15 DEF SaveEditAndSubmit, sendChat, Idle, Generating
<1>16. ASSUME NEW i \in DOMAIN messages, handleEditMessage(i) PROVE Idle'
  BY <1>16 DEF handleEditMessage, buffers, Idle, Generating
<1>17. ASSUME NEW i \in DOMAIN messages, SaveEdit(i) PROVE Idle'
  <2> DEFINE es == [messages EXCEPT ![i].text = Edited]
  <2>1. /\ es \in Conversation /\ Len(es) = Len(messages)
        /\ \A j \in 1..Len(messages) : IsPending(es[j]) <=> IsPending(messages[j])
    BY EditFacts DEF ConversationsOK
  <2>2. messages' = es
    BY <1>17 DEF SaveEdit, updateMessages
  <2> HIDE DEF es
  <2>3. NonePending(messages) => NonePending(messages')
    BY <2>1, <2>2 DEF NonePending
  <2> QED
    BY <1>17, <2>3 DEF SaveEdit, buffers, Idle, Generating
<1>18. ASSUME NEW i \in DOMAIN messages, handleDeleteMessage(i) PROVE Idle'
  <2>1. ~Generating /\ UNCHANGED buffers /\ messages' = RemoveAt(messages, i)
    BY <1>18 DEF handleDeleteMessage, updateMessages
  <2> QED
    BY <2>1, DeleteFacts DEF Idle, ConversationsOK, buffers
<1>19. ASSUME NEW r \in Request, LateChunk(r) PROVE Idle'
  BY <1>19 DEF LateChunk, Idle, Generating
<1> QED
  BY <1>1, <1>2, <1>3, <1>4, <1>5, <1>6, <1>7, <1>8, <1>9, <1>10, <1>11, <1>12, <1>13, <1>14,
     <1>15, <1>16, <1>17, <1>18, <1>19 DEF Next

LEMMA SavedStep ==
    ASSUME ConversationsOK, Tails, SavedIsShown, Next
    PROVE  SavedIsShown'
<1>1. ASSUME FlushTimer PROVE SavedIsShown'
  BY <1>1 DEF FlushTimer, FlushAnd, updateMessages, SavedIsShown
<1>2. ASSUME SaveTimer PROVE SavedIsShown'
  BY <1>2 DEF SaveTimer, SavedIsShown
<1>3. ASSUME Leave PROVE SavedIsShown'
  <2>1. trimMessages(messages) \in Conversation /\ TailPending(trimMessages(messages))
    BY TrimFacts, TrimTail DEF ConversationsOK, Tails
  <2>2. PICK ms \in Conversation : TailPending(ms) /\ LeaveWith(ms)
    BY <1>3, <2>1 DEF Leave, ConversationsOK, Tails
  <2> QED
    BY <2>2, LoadFacts, TrimFacts DEF LeaveWith, Mount, SavedIsShown
<1>4. ASSUME Reload PROVE SavedIsShown'
  BY <1>4, LoadFacts, TrimFacts DEF Reload, Mount, SavedIsShown, ConversationsOK, Tails
<1>5. ASSUME stopGeneration PROVE SavedIsShown'
  BY <1>5 DEF stopGeneration, FlushAnd, updateMessages, SavedIsShown
<1>6. ASSUME handleEditOpenChange PROVE SavedIsShown'
  BY <1>6 DEF handleEditOpenChange, storage, kept, SavedIsShown
<1>7. ASSUME handleClearMessages PROVE SavedIsShown'
  BY <1>7 DEF handleClearMessages, updateMessages, SavedIsShown
<1>8. ASSUME NEW r \in Request, handleSendMessage(r) PROVE SavedIsShown'
  BY <1>8 DEF handleSendMessage, updateMessages, SavedIsShown
<1>9. ASSUME NEW r \in Request, handleStreamUpdate(r) PROVE SavedIsShown'
  BY <1>9 DEF handleStreamUpdate, storage, kept, SavedIsShown
<1>10. ASSUME NEW r \in Request, StreamEnds(r) PROVE SavedIsShown'
  BY <1>10 DEF StreamEnds, FlushAnd, updateMessages, SavedIsShown
<1>11. ASSUME NEW r \in Request, StreamDropped(r) PROVE SavedIsShown'
  BY <1>11 DEF StreamDropped, storage, kept, SavedIsShown
<1>12. ASSUME NEW r \in Request, PlainReturns(r) PROVE SavedIsShown'
  <2>1. UNCHANGED <<stored, late>>
    BY <1>12 DEF PlainReturns, kept
  <2>2. saveTimer' = TRUE \/ UNCHANGED <<messages, saveTimer>>
    BY <1>12 DEF PlainReturns, FlushAnd, updateMessages
  <2> QED
    BY <2>1, <2>2 DEF SavedIsShown
<1>13. ASSUME NEW r \in Request, LateReport(r) PROVE SavedIsShown'
  BY <1>13 DEF LateReport, LateSave, SavedIsShown
<1>14. ASSUME NEW r \in Request, NEW i \in DOMAIN messages, handleRegenerateMessage(i, r)
      PROVE  SavedIsShown'
  BY <1>14 DEF handleRegenerateMessage, updateMessages, SavedIsShown
<1>15. ASSUME NEW r \in Request, NEW i \in DOMAIN messages, SaveEditAndSubmit(i, r)
      PROVE  SavedIsShown'
  BY <1>15 DEF SaveEditAndSubmit, updateMessages, SavedIsShown
<1>16. ASSUME NEW i \in DOMAIN messages, handleEditMessage(i) PROVE SavedIsShown'
  BY <1>16 DEF handleEditMessage, storage, kept, SavedIsShown
<1>17. ASSUME NEW i \in DOMAIN messages, SaveEdit(i) PROVE SavedIsShown'
  BY <1>17 DEF SaveEdit, updateMessages, SavedIsShown
<1>18. ASSUME NEW i \in DOMAIN messages, handleDeleteMessage(i) PROVE SavedIsShown'
  BY <1>18 DEF handleDeleteMessage, updateMessages, SavedIsShown
<1>19. ASSUME NEW r \in Request, LateChunk(r) PROVE SavedIsShown'
  BY <1>19 DEF LateChunk, SavedIsShown
<1> QED
  BY <1>1, <1>2, <1>3, <1>4, <1>5, <1>6, <1>7, <1>8, <1>9, <1>10, <1>11, <1>12, <1>13, <1>14,
     <1>15, <1>16, <1>17, <1>18, <1>19 DEF Next

-----------------------------------------------------------------------------
(* Theorems *)

IInv ==
    /\ ConversationsOK /\ RequestsOK /\ SaidOK /\ Tails /\ StreamRefs /\ PlainRefs
    /\ Idle /\ Awaiting /\ SavedIsShown

LEMMA InitIInv == Init => IInv
<1> SUFFICES ASSUME Init PROVE IInv
  OBVIOUS
<1>1. Earlier \in Conversation /\ Len(Earlier) = 1 /\ NonePending(Earlier)
  BY MadeMessages DEF Earlier, Conversation, NonePending
<1>2. ConversationsOK
  BY <1>1, EmptyText, NatFacts DEF Init, ConversationsOK
<1>3. RefsOK /\ FlagsOK
  <2>1. RefsOK
    BY NatFacts DEF Init, RefsOK
  <2>2. FlagsOK
    BY DEF Init, FlagsOK
  <2> QED
    BY <2>1, <2>2
<1>4. Tails
  BY <1>1, EmptyText, NoneIsTail DEF Init, Tails
<1>5. StreamRefs /\ PlainRefs /\ Awaiting
  BY DEF Init, StreamRefs, PlainRefs, Awaiting
<1>6. Idle
  BY <1>1 DEF Init, Idle
<1>7. SavedIsShown
  BY <1>1, NatFacts, TrimFacts DEF Init, SavedIsShown
<1>8. SaidOK
  BY EmptyText DEF Init, SaidOK
<1> QED
  BY <1>2, <1>3, <1>4, <1>5, <1>6, <1>7, <1>8 DEF IInv, RequestsOK

LEMMA NextIInv == IInv /\ [Next]_vars => IInv'
<1>1. ASSUME IInv, Next PROVE IInv'
  <2>1. IdleIsFinal
    BY <1>1, IdleMessages DEF IInv, Idle
  <2>2. ConversationsOK' /\ Tails'
    BY <1>1, <2>1, ConversationsStep DEF IInv
  <2>3. RequestsOK'
    BY <1>1, RefsStep, FlagsStep DEF IInv, RequestsOK
  <2>4. StreamRefs' /\ PlainRefs' /\ Awaiting'
    BY <1>1, StreamRefsStep, PlainRefsStep, AwaitingStep DEF IInv
  <2>5. Idle' /\ SavedIsShown'
    BY <1>1, IdleStep, SavedStep DEF IInv
  <2>6. SaidOK'
    BY <1>1, SaidStep DEF IInv
  <2> QED
    BY <2>2, <2>3, <2>4, <2>5, <2>6 DEF IInv
<1>2. ASSUME IInv, UNCHANGED vars PROVE IInv'
  <2>1. (ConversationsOK /\ Tails /\ SavedIsShown)'
    BY <1>2 DEF vars, buffers, storage, kept, IInv, ConversationsOK, Tails, SavedIsShown
  <2>2. RequestsOK'
    BY <1>2 DEF vars, requests, refs, buffers, storage, kept, IInv, RequestsOK, RefsOK, FlagsOK
  <2>3. (StreamRefs /\ PlainRefs /\ Idle /\ Awaiting)'
    BY <1>2 DEF vars, requests, refs, buffers, IInv, StreamRefs, PlainRefs, Idle, Awaiting,
       Generating
  <2>4. SaidOK'
    BY <1>2 DEF vars, requests, buffers, IInv, SaidOK
  <2> QED
    BY <2>1, <2>2, <2>3, <2>4 DEF IInv
<1> QED
  BY <1>1, <1>2

LEMMA SpecIInv == Spec => []IInv
BY InitIInv, NextIInv, PTL DEF Spec

\* Type correctness; in particular what is stored never exceeds MAX_STORED_MESSAGES.
THEOREM TypeCorrect == Spec => []TypeOK
<1>1. ASSUME IInv PROVE TypeOK
  <2>1. \A i \in DOMAIN messages : messages[i] \in Message
    BY <1>1, LenProperties, ElementOfSeq DEF IInv, ConversationsOK, Conversation
  <2>2. \A i \in DOMAIN messages : messages[i].status \in Status /\ messages[i].key \in 0..MaxRequests
    BY <2>1 DEF Message
  <2> QED
    BY <1>1, <2>2 DEF IInv, ConversationsOK, RequestsOK, RefsOK, FlagsOK, SaidOK, Text,
       TypeOK
<1> QED
  BY <1>1, SpecIInv, PTL

\* However requests are stopped, superseded, cut off or answered late: once nothing is being
\* generated no answer is under way and no chunk waits.
THEOREM IdleTheorem == Spec => []IdleIsFinal
<1>1. IInv => IdleIsFinal
  BY IdleMessages DEF IInv, Idle
<1> QED
  BY <1>1, SpecIInv, PTL

\* A request that is under way is shown as such, as long as none was sent while another was.
THEOREM BusyTheorem == Spec => []BusyWhileAwaiting
<1>1. IInv => BusyWhileAwaiting
  BY DEF IInv, Awaiting, BusyWhileAwaiting
<1> QED
  BY <1>1, SpecIInv, PTL

\* Leaving the page and coming back shows the same conversation, at whatever point of the
\* debounce it was left.
THEOREM LeaveTheorem == Spec => LeaveKeeps
<1>1. ASSUME IInv, Leave, saveTimer \/ ~late
      PROVE  messages' = loadMessages(trimMessages(messages))
  BY <1>1 DEF Leave, LeaveWith, Mount, IInv, SavedIsShown
<1>2. IInv => [Leave /\ (saveTimer \/ ~late)
                 => messages' = loadMessages(trimMessages(messages))]_vars
  BY <1>1
<1> QED
  BY <1>2, SpecIInv, PTL DEF Spec, LeaveKeeps


-----------------------------------------------------------------------------
(***************************************************************************)
(* Answers are whole.  The argument: without overlapping requests the last *)
(* message is the one answer under way.  Unless something new was taken    *)
(* for the text so far, its text is the beginning of what the upstream     *)
(* said, and what is pending either continues it or is all of it, so that  *)
(* a flush makes the text all that was said.  A page that was left goes on *)
(* in the same way.  Loading keeps an end of a text whose sections repeat, *)
(* and any other text as it is.                                            *)
(***************************************************************************)

\* What a text that was loaded again has to do with what was said.
Follows(t, s) == PartOf(t, s) /\ (Repeated(s) = {} => IsPrefix(t, s))

LEMMA PrefixTransitive ==
    ASSUME NEW s \in Text, NEW t \in Text, NEW u \in Text, IsPrefix(s, t), IsPrefix(t, u)
    PROVE  IsPrefix(s, u)
<1>1. Len(s) \in Nat /\ Len(t) \in Nat /\ Len(u) \in Nat
  BY LenProperties DEF Text
<1>2. Len(s) <= Len(t) /\ Len(t) <= Len(u)
      /\ (\A i \in 1..Len(s) : s[i] = t[i]) /\ (\A i \in 1..Len(t) : t[i] = u[i])
  BY IsPrefixText
<1>3. Len(s) <= Len(u) /\ \A i \in 1..Len(s) : s[i] = u[i]
  BY <1>1, <1>2
<1> QED
  BY <1>3, IsPrefixText

LEMMA PrefixFacts ==
    ASSUME NEW s \in Text
    PROVE  IsPrefix(<<>>, s) /\ IsPrefix(s, s)
<1>1. Len(s) \in Nat /\ <<>> \in Text /\ Len(<<>>) = 0
  BY LenProperties, EmptySeq DEF Text
<1> QED
  BY <1>1, IsPrefixText

LEMMA PrefixOfConcat ==
    ASSUME NEW s \in Text, NEW t \in Text
    PROVE  s \o t \in Text /\ IsPrefix(s, s \o t) /\ (t # <<>> => s \o t # <<>>)
<1>1. s \in Seq(Nat) /\ t \in Seq(Nat) /\ Len(s) \in Nat /\ Len(t) \in Nat
  BY LenProperties DEF Text
<1> DEFINE u == s \o t
<1>2. /\ u \in Seq(Nat) /\ Len(u) = Len(s) + Len(t)
      /\ \A i \in 1..Len(s) + Len(t) : u[i] = IF i <= Len(s) THEN s[i] ELSE t[i - Len(s)]
  BY <1>1, ConcatProperties
<1>3. t # <<>> => Len(t) > 0
  BY <1>1, EmptySeq
<1> HIDE DEF u
<1>4. IsPrefix(s, u)
  <2>1. Len(s) <= Len(u) /\ \A i \in 1..Len(s) : i \in 1..Len(s) + Len(t) /\ i <= Len(s)
    BY <1>1, <1>2
  <2>2. \A i \in 1..Len(s) : s[i] = u[i]
    BY <1>2, <2>1
  <2> QED
    BY <1>2, <2>1, <2>2, IsPrefixText DEF Text
<1>5. t # <<>> => u # <<>>
  BY <1>1, <1>2, <1>3, EmptySeq
<1> QED
  BY <1>2, <1>4, <1>5 DEF u, Text

\* A text and what is new in a longer one make the longer one.
LEMMA PrefixAndRest ==
    ASSUME NEW s \in Text, NEW t \in Text, IsPrefix(s, t)
    PROVE  s \o SubSeq(t, Len(s) + 1, Len(t)) = t
<1>1. s \in Seq(Nat) /\ t \in Seq(Nat) /\ Len(s) \in Nat /\ Len(t) \in Nat
  BY LenProperties DEF Text
<1>2. Len(s) <= Len(t) /\ \A i \in 1..Len(s) : s[i] = t[i]
  BY IsPrefixText
<1> DEFINE u == SubSeq(t, Len(s) + 1, Len(t))
           v == s \o u
<1>3. \A i \in Len(s) + 1..Len(t) : t[i] \in Nat
  BY <1>1, ElementOfSeq
<1>4. u \in Seq(Nat) /\ Len(u) = Len(t) - Len(s) /\ \A i \in 1..Len(t) - Len(s) : u[i] = t[Len(s) + i]
  <2>1. /\ u \in Seq(Nat) /\ Len(u) = IF Len(s) + 1 <= Len(t) THEN Len(t) - (Len(s) + 1) + 1 ELSE 0
        /\ \A i \in 1..Len(t) - (Len(s) + 1) + 1 : u[i] = t[(Len(s) + 1) + i - 1]
    BY <1>1, <1>3, SubSeqProperties
  <2> HIDE DEF u
  <2>2. Len(t) - (Len(s) + 1) + 1 = Len(t) - Len(s) /\ Len(u) = Len(t) - Len(s)
    BY <1>1, <1>2, <2>1
  <2>3. ASSUME NEW i \in 1..Len(t) - Len(s) PROVE u[i] = t[Len(s) + i]
    <3>1. i \in 1..Len(t) - (Len(s) + 1) + 1 /\ (Len(s) + 1) + i - 1 = Len(s) + i
      BY <1>1
    <3> QED
      BY <2>1, <3>1
  <2> QED
    BY <2>1, <2>2, <2>3
<1> HIDE DEF u
<1>5. /\ v \in Seq(Nat) /\ Len(v) = Len(s) + Len(u)
      /\ \A i \in 1..Len(s) + Len(u) : v[i] = IF i <= Len(s) THEN s[i] ELSE u[i - Len(s)]
  BY <1>1, <1>4, ConcatProperties
<1> HIDE DEF v
<1>6. Len(v) = Len(t)
  BY <1>1, <1>2, <1>4, <1>5
<1>7. ASSUME NEW i \in 1..Len(v) PROVE v[i] = t[i]
  <2>1. CASE i <= Len(s)
    BY <1>1, <1>2, <1>5, <1>6, <2>1
  <2>2. CASE ~(i <= Len(s))
    <3>1. i - Len(s) \in 1..Len(t) - Len(s) /\ Len(s) + (i - Len(s)) = i /\ i \in 1..Len(s) + Len(u)
      BY <1>1, <1>5, <1>6, <2>2
    <3> QED
      BY <1>4, <1>5, <2>2, <3>1
  <2> QED
    BY <2>1, <2>2
<1>8. v = t
  BY <1>1, <1>5, <1>6, <1>7, SeqEqual
<1> QED
  BY <1>8 DEF u, v

\* A text in which no section repeats begins with no text in which one does.
LEMMA RepeatedGrows ==
    ASSUME NEW s \in Text, NEW t \in Text, IsPrefix(s, t), Repeated(t) = {}
    PROVE  Repeated(s) = {}
<1>1. Len(s) \in Nat /\ Len(t) \in Nat
  BY LenProperties DEF Text
<1>2. Len(s) <= Len(t) /\ \A i \in 1..Len(s) : s[i] = t[i]
  BY IsPrefixText
<1> SUFFICES ASSUME NEW k \in Repeated(s) PROVE FALSE
  OBVIOUS
<1>3. PICK i \in 1..k-1, j \in 1..k-1 : k \in 1..Len(s) /\ s[k] \in Heading /\ i < j /\ s[i] = s[k] /\ s[j] = s[k]
  BY DEF Repeated
<1>4. k \in 1..Len(t) /\ i \in 1..Len(s) /\ j \in 1..Len(s)
  BY <1>1, <1>2, <1>3
<1>5. t[k] \in Heading /\ t[i] = t[k] /\ t[j] = t[k]
  BY <1>2, <1>3, <1>4
<1>6. k \in Repeated(t)
  BY <1>3, <1>4, <1>5 DEF Repeated
<1> QED
  BY <1>6

LEMMA FollowsPrefix ==
    ASSUME NEW s \in Text, NEW t \in Text, IsPrefix(s, t)
    PROVE  Follows(s, t)
<1>1. Len(s) \in Nat /\ Len(t) \in Nat
  BY LenProperties DEF Text
<1>2. Len(s) <= Len(t) /\ \A i \in 1..Len(s) : s[i] = t[i]
  BY IsPrefixText
<1>3. 0 \in 0..Len(t) /\ 0 + Len(s) <= Len(t) /\ \A i \in 1..Len(s) : s[i] = t[0 + i]
  BY <1>1, <1>2
<1>4. PartOf(s, t)
  BY <1>3 DEF PartOf
<1> QED
  BY <1>4 DEF Follows

LEMMA FollowsGrows ==
    ASSUME NEW s \in Text, NEW t \in Text, NEW u \in Text, Follows(s, t), IsPrefix(t, u)
    PROVE  Follows(s, u)
<1>1. Len(s) \in Nat /\ Len(t) \in Nat /\ Len(u) \in Nat
  BY LenProperties DEF Text
<1>2. Len(t) <= Len(u) /\ \A i \in 1..Len(t) : t[i] = u[i]
  BY IsPrefixText
<1>3. PICK k \in 0..Len(t) : k + Len(s) <= Len(t) /\ \A i \in 1..Len(s) : s[i] = t[k + i]
  BY DEF Follows, PartOf
<1>4. k \in 0..Len(u) /\ k + Len(s) <= Len(u)
  BY <1>1, <1>2, <1>3
<1>5. \A i \in 1..Len(s) : k + i \in 1..Len(t)
  BY <1>1, <1>3
<1>6. PartOf(s, u)
  BY <1>2, <1>3, <1>4, <1>5 DEF PartOf
<1>7. Repeated(u) = {} => IsPrefix(s, u)
  BY RepeatedGrows, PrefixTransitive DEF Follows
<1> QED
  BY <1>6, <1>7 DEF Follows

LEMMA FollowsLoaded ==
    ASSUME NEW s \in Text, NEW t \in Text, Follows(s, t)
    PROVE  Follows(collapseRepeatedSectionSnapshots(s), t)
<1> DEFINE c == collapseRepeatedSectionSnapshots(s)
<1>1. /\ c \in Text /\ (Repeated(s) = {} => c = s)
      /\ c = s \/ \E k \in 1..Len(s) : c = SubSeq(s, k, Len(s))
  BY CollapseFacts
<1> HIDE DEF c
<1>2. Len(s) \in Nat /\ Len(t) \in Nat
  BY LenProperties DEF Text
<1>3. PartOf(c, t)
  <2>1. CASE c = s
    BY <2>1 DEF Follows
  <2>2. ASSUME NEW h \in 1..Len(s), c = SubSeq(s, h, Len(s)) PROVE PartOf(c, t)
    <3>1. \A i \in h..Len(s) : s[i] \in Nat
      BY <1>2, ElementOfSeq DEF Text
    <3>2. /\ Len(c) = IF h <= Len(s) THEN Len(s) - h + 1 ELSE 0
          /\ \A i \in 1..Len(s) - h + 1 : c[i] = s[h + i - 1]
      BY <1>2, <2>2, <3>1, SubSeqProperties
    <3>3. PICK k \in 0..Len(t) : k + Len(s) <= Len(t) /\ \A i \in 1..Len(s) : s[i] = t[k + i]
      BY DEF Follows, PartOf
    <3> DEFINE g == k + (h - 1)
    <3>4. g \in 0..Len(t) /\ g + Len(c) <= Len(t) /\ Len(c) = Len(s) - h + 1
      BY <1>2, <3>2, <3>3
    <3>5. ASSUME NEW i \in 1..Len(c) PROVE c[i] = t[g + i]
      <4>1. h + i - 1 \in 1..Len(s) /\ k + (h + i - 1) = g + i /\ i \in 1..Len(s) - h + 1
        BY <1>2, <3>4
      <4> QED
        BY <3>2, <3>3, <4>1
    <3> HIDE DEF g
    <3> QED
      BY <3>4, <3>5 DEF PartOf
  <2> QED
    BY <1>1, <2>1, <2>2
<1>4. Repeated(t) = {} => IsPrefix(c, t)
  BY <1>1, RepeatedGrows DEF Follows
<1> QED
  BY <1>3, <1>4 DEF Follows, c

-----------------------------------------------------------------------------
(* The invariant *)

\* A plain request has said nothing until it returns; requests are left with a page.
PlainUnsaid == \A r \in Request : stage[r] \in {"none", "open", "left"} /\ ~stream[r] => said[r] = <<>>
LeftLater == mounts = 0 => \A r \in Request : stage[r] # "left"

\* An answer belongs to a request that was sent, and is taken from what the upstream said,
\* unless something was lost.
FitsMessage(m, stages, texts, lost) ==
    m.from = "assistant" =>
        /\ m.key \in Request /\ stages[m.key] # "none"
        /\ m.status # "error" /\ m.text # Edited /\ m.key \notin lost => Follows(m.text, texts[m.key])
Fits(ms, stages, texts, lost) == \A i \in 1..Len(ms) : FitsMessage(ms[i], stages, texts, lost)
AllFit ==
    /\ Fits(messages, stage, said, mistaken) /\ Fits(stored, stage, said, mistaken)
    /\ \A r \in Request : Fits(left[r], stage, said, mistaken)

\* On the first visit an answer that is no longer under way is all that was said, and its
\* request is over.
WholeMessage(m, stages, texts, lost) ==
    m.from = "assistant" /\ ~IsPending(m) =>
        /\ stages[m.key] # "open"
        /\ m.status = "complete" /\ m.text # Edited /\ m.key \notin lost => m.text = texts[m.key]
AllWhole == mounts = 0 => \A i \in 1..Len(messages) : WholeMessage(messages[i], stage, said, mistaken)

\* What was said is the text followed by what is pending; for an upstream that sends the
\* text so far it is what is pending, if anything is, and begins with the text.
Progress(r, text, pending, s) ==
    IF Kind[r] = "delta" THEN s = text \o pending
    ELSE IsPrefix(text, s) /\ s = IF pending = <<>> THEN text ELSE pending

\* While something is being generated the last message is the answer under way.
UnderWay ==
    Generating =>
        /\ messages # <<>>
        /\ LET m == Last(messages) IN
           /\ IsPending(m) /\ m.key \in Request
           /\ stage[m.key] \in {"open", "ended"}
           /\ isStreaming <=> stream[m.key]
           /\ stream[m.key] /\ m.key \notin mistaken => Progress(m.key, m.text, buffer, said[m.key])
           /\ ~stream[m.key] => m.text = <<>> /\ said[m.key] = <<>>
           /\ \A r \in Request : stage[r] = "open" => r = m.key

\* The same on a page that was left.
LeftWhole ==
    \A r \in Request : stage[r] = "left" =>
        /\ left[r] # <<>>
        /\ LET m == Last(left[r]) IN
           /\ IsPending(m) /\ m.key = r
           /\ stream[r] /\ r \notin mistaken => Progress(r, m.text, waiting[r], said[r])
           /\ ~stream[r] => waiting[r] = <<>>

\* An open editor is for an answer that was there before the one under way.
EditsOld ==
    \A r \in Request :
        stage[r] = "none" \/ (Generating /\ r = Last(messages).key) => editing # <<"assistant", r>>

Answers == AllFit /\ AllWhole /\ UnderWay /\ LeftWhole /\ EditsOld
Texts == PlainUnsaid /\ LeftLater /\ (~overlapped => Answers)

-----------------------------------------------------------------------------
(* What was said *)

\* A flush: what is pending continues the text or is all of it, and unless it is mistaken
\* the text becomes all that was said.
LEMMA FlushedText ==
    ASSUME NEW r, NEW t \in Text, NEW b \in Text, NEW s \in Text, Progress(r, t, b, s)
    PROVE  /\ b = <<>> => t = s
           /\ b # <<>> /\ Mistaken(r, t, b) = {} => t \o getAppendableChunk(t, b) = s
<1>1. t \o <<>> = t /\ <<>> \o b = b
  BY ConcatEmptySeq DEF Text
<1>2. b = <<>> => t = s
  BY <1>1 DEF Progress
<1>3. ASSUME b # <<>>, Mistaken(r, t, b) = {} PROVE t \o getAppendableChunk(t, b) = s
  <2>1. CASE Kind[r] = "delta"
    <3>1. ~(t # <<>> /\ IsPrefix(t, b))
      BY <1>3, <2>1 DEF Mistaken
    <3>2. getAppendableChunk(t, b) = b
      BY <3>1 DEF getAppendableChunk
    <3> QED
      BY <2>1, <3>2 DEF Progress
  <2>2. CASE Kind[r] # "delta"
    <3>1. s = b /\ IsPrefix(t, b)
      BY <1>3, <2>2 DEF Progress
    <3>2. CASE t = <<>>
      BY <1>1, <3>1, <3>2 DEF getAppendableChunk
    <3>3. CASE t # <<>>
      <4>1. getAppendableChunk(t, b) = SubSeq(b, Len(t) + 1, Len(b))
        BY <3>1, <3>3 DEF getAppendableChunk
      <4> QED
        BY <3>1, <4>1, PrefixAndRest
    <3> QED
      BY <3>2, <3>3
  <2> QED
    BY <2>1, <2>2
<1> QED
  BY <1>2, <1>3

\* A chunk: what is new is appended to what is pending, a text so far replaces it.
LEMMA ReadBuffer ==
    ASSUME SaidOK, NEW r \in Request, NEW t \in Text, NEW b \in Text, NEW d \in Delta,
           Progress(r, t, b, said[r]), Mistaken(r, b, Chunk(r, d)) = {}
    PROVE  Progress(r, t, mergePendingStreamChunk(b, Chunk(r, d)), said[r] \o d)
<1> DEFINE s == said[r]
<1>1. s \in Text /\ d \in Text /\ d # <<>>
  BY MadeMessages DEF SaidOK
<1>2. s \o d \in Text /\ IsPrefix(s, s \o d) /\ s \o d # <<>>
  BY <1>1, PrefixOfConcat
<1>3. CASE Kind[r] = "delta"
  <2>1. mergePendingStreamChunk(b, d) = b \o d /\ Chunk(r, d) = d
    BY <1>3 DEF Mistaken, mergePendingStreamChunk, Chunk
  <2>2. (t \o b) \o d = t \o (b \o d)
    BY <1>1, ConcatAssociative, SMTT(20) DEF Text
  <2> QED
    BY <1>3, <2>1, <2>2 DEF Progress
<1>4. CASE Kind[r] # "delta"
  <2> DEFINE u == s \o d
  <2>1. Chunk(r, d) = u /\ IsPrefix(t, s) /\ s = IF b = <<>> THEN t ELSE b
    BY <1>4 DEF Chunk, Progress
  <2>2. <<>> \o u = u
    BY <1>2, ConcatEmptySeq DEF Text
  <2>3. mergePendingStreamChunk(b, u) = u
    BY <1>2, <2>1, <2>2 DEF mergePendingStreamChunk
  <2>4. IsPrefix(t, u)
    BY <1>1, <1>2, <2>1, PrefixTransitive
  <2> HIDE DEF u
  <2>5. Progress(r, t, u, u)
    BY <1>2, <1>4, <2>4 DEF Progress, u
  <2> QED
    BY <2>1, <2>3, <2>5 DEF u
<1> QED
  BY <1>3, <1>4

\* What a step may do to the stage of a request and to what was said to it.
SaidMore(q) ==
    /\ \/ said'[q] = said[q]
       \/ /\ stage[q] \in {"open", "left"}
          /\ \E d \in Delta : said'[q] = IF stream[q] THEN said[q] \o d ELSE d
    /\ stage'[q] = "none" => stage[q] = "none"
    /\ stage'[q] = "open" => stage[q] \in {"none", "open"}

LEMMA SaidBySend ==
    ASSUME RefsOK, NEW r \in Request, sendChat(r)
    PROVE  \A q \in Request : SaidMore(q)
<1> SUFFICES ASSUME NEW q \in Request PROVE SaidMore(q)
  OBVIOUS
<1>1. stage[r] = "none" /\ said' = said
  BY NatFacts DEF sendChat, Request
<1>2. stage'[q] = stage[q] \/ stage'[q] = "ended" \/ (q = r /\ stage'[q] = "open")
  BY DEF sendChat, RefsOK
<1> QED
  BY <1>1, <1>2 DEF SaidMore

LEMMA SaidSteps ==
    ASSUME RefsOK, SaidOK, Next
    PROVE  \A q \in Request : SaidMore(q)
<1>1. ASSUME FlushTimer PROVE \A q \in Request : SaidMore(q)
  BY <1>1, NatFacts DEF FlushTimer, requests, refs, kept, updateMessages, FlushAnd, RefsOK,
     Request, SaidMore
<1>2. ASSUME SaveTimer PROVE \A q \in Request : SaidMore(q)
  BY <1>2, NatFacts DEF SaveTimer, requests, refs, buffers, RefsOK, Request, SaidMore
<1>3. ASSUME Leave PROVE \A q \in Request : SaidMore(q)
  BY <1>3, NatFacts DEF Leave, Mount, LeaveWith, RefsOK, Request, SaidMore
<1>4. ASSUME Reload PROVE \A q \in Request : SaidMore(q)
  BY <1>4, NatFacts DEF Reload, Mount, RefsOK, Request, SaidMore
<1>5. ASSUME stopGeneration PROVE \A q \in Request : SaidMore(q)
  BY <1>5, NatFacts DEF stopGeneration, kept, updateMessages, FlushAnd, Generating, RefsOK,
     Request, SaidMore
<1>6. ASSUME handleEditOpenChange PROVE \A q \in Request : SaidMore(q)
  BY <1>6, NatFacts DEF handleEditOpenChange, requests, refs, buffers, kept, storage, RefsOK,
     Request, SaidMore
<1>7. ASSUME handleClearMessages PROVE \A q \in Request : SaidMore(q)
  BY <1>7, NatFacts DEF handleClearMessages, requests, refs, buffers, kept, updateMessages,
     Generating, RefsOK, Request, SaidMore
<1>8. ASSUME NEW r \in Request, handleSendMessage(r) PROVE \A q \in Request : SaidMore(q)
  BY <1>8, SaidBySend DEF handleSendMessage
<1>9. ASSUME NEW r \in Request, handleStreamUpdate(r) PROVE \A q \in Request : SaidMore(q)
  BY <1>9 DEF handleStreamUpdate, RefsOK, SaidOK, SaidMore
<1>10. ASSUME NEW r \in Request, StreamEnds(r) PROVE \A q \in Request : SaidMore(q)
  BY <1>10, NatFacts DEF StreamEnds, kept, updateMessages, FlushAnd, RefsOK, Request, SaidMore
<1>11. ASSUME NEW r \in Request, StreamDropped(r) PROVE \A q \in Request : SaidMore(q)
  BY <1>11, NatFacts DEF StreamDropped, refs, buffers, kept, storage, RefsOK, Request,
     SaidMore
<1>12. ASSUME NEW r \in Request, PlainReturns(r) PROVE \A q \in Request : SaidMore(q)
  BY <1>12 DEF PlainReturns, RefsOK, SaidOK, SaidMore
<1>13. ASSUME NEW r \in Request, LateReport(r) PROVE \A q \in Request : SaidMore(q)
  BY <1>13 DEF LateReport, RefsOK, SaidOK, SaidMore
<1>14. ASSUME NEW r \in Request, NEW i \in DOMAIN messages, handleRegenerateMessage(i, r)
      PROVE  \A q \in Request : SaidMore(q)
  BY <1>14, SaidBySend DEF handleRegenerateMessage
<1>15. ASSUME NEW r \in Request, NEW i \in DOMAIN messages, SaveEditAndSubmit(i, r)
      PROVE  \A q \in Request : SaidMore(q)
  BY <1>15, SaidBySend DEF SaveEditAndSubmit
<1>16. ASSUME NEW i \in DOMAIN messages, handleEditMessage(i)
      PROVE  \A q \in Request : SaidMore(q)
  BY <1>16, NatFacts DEF handleEditMessage, requests, refs, buffers, kept, storage,
     Generating, RefsOK, Request, SaidMore
<1>17. ASSUME NEW i \in DOMAIN messages, SaveEdit(i) PROVE \A q \in Request : SaidMore(q)
  BY <1>17, NatFacts DEF SaveEdit, requests, refs, buffers, kept, updateMessages, RefsOK,
     Request, SaidMore
<1>18. ASSUME NEW i \in DOMAIN messages, handleDeleteMessage(i)
      PROVE  \A q \in Request : SaidMore(q)
  BY <1>18, NatFacts DEF handleDeleteMessage, requests, refs, buffers, kept, updateMessages,
     Generating, RefsOK, Request, SaidMore
<1>19. ASSUME NEW r \in Request, LateChunk(r) PROVE \A q \in Request : SaidMore(q)
  BY <1>19 DEF LateChunk, RefsOK, SaidOK, SaidMore
<1> QED
  BY <1>1, <1>2, <1>3, <1>4, <1>5, <1>6, <1>7, <1>8, <1>9, <1>10, <1>11, <1>12, <1>13, <1>14,
     <1>15, <1>16, <1>17, <1>18, <1>19 DEF Next

LEMMA UnsaidBySend ==
    ASSUME RequestsOK, StreamRefs, PlainUnsaid, NEW r \in Request, sendChat(r)
    PROVE  PlainUnsaid'
<1> SUFFICES ASSUME NEW q \in Request, stage'[q] \in {"none", "open", "left"}, ~stream'[q]
             PROVE  said'[q] = <<>>
  BY DEF PlainUnsaid
<1>1. said' = said
  BY DEF sendChat
<1>2. stage[r] = "none" /\ ~stream[r]
  BY NatFacts DEF sendChat, Request, StreamRefs
<1>3. q # r => stage'[q] = stage[q] \/ stage'[q] = "ended"
  BY DEF sendChat, RequestsOK, RefsOK
<1>4. q # r => stream'[q] = stream[q]
  BY DEF sendChat, RequestsOK, RefsOK
<1> QED
  BY <1>1, <1>2, <1>3, <1>4 DEF PlainUnsaid

LEMMA PlainUnsaidStep ==
    ASSUME RequestsOK, SaidOK, StreamRefs, PlainUnsaid, Next
    PROVE  PlainUnsaid'
<1>1. ASSUME FlushTimer PROVE PlainUnsaid'
  BY <1>1, NatFacts DEF FlushTimer, requests, refs, kept, updateMessages, FlushAnd,
     RequestsOK, RefsOK, FlagsOK, Request, StreamRefs, PlainUnsaid
<1>2. ASSUME SaveTimer PROVE PlainUnsaid'
  BY <1>2, NatFacts DEF SaveTimer, requests, refs, buffers, RequestsOK, RefsOK, FlagsOK,
     Request, StreamRefs, PlainUnsaid
<1>3. ASSUME Leave PROVE PlainUnsaid'
  BY <1>3, NatFacts DEF Leave, Mount, LeaveWith, RequestsOK, RefsOK, FlagsOK, Request,
     StreamRefs, PlainUnsaid
<1>4. ASSUME Reload PROVE PlainUnsaid'
  BY <1>4, NatFacts DEF Reload, Mount, RequestsOK, RefsOK, FlagsOK, Request, StreamRefs,
     PlainUnsaid
<1>5. ASSUME stopGeneration PROVE PlainUnsaid'
  BY <1>5, NatFacts DEF stopGeneration, kept, updateMessages, FlushAnd, Generating,
     RequestsOK, RefsOK, FlagsOK, Request, StreamRefs, PlainUnsaid
<1>6. ASSUME handleEditOpenChange PROVE PlainUnsaid'
  BY <1>6, NatFacts DEF handleEditOpenChange, requests, refs, buffers, kept, storage,
     RequestsOK, RefsOK, FlagsOK, Request, StreamRefs, PlainUnsaid
<1>7. ASSUME handleClearMessages PROVE PlainUnsaid'
  BY <1>7, NatFacts DEF handleClearMessages, requests, refs, buffers, kept, updateMessages,
     Generating, RequestsOK, RefsOK, FlagsOK, Request, StreamRefs, PlainUnsaid
<1>8. ASSUME NEW r \in Request, handleSendMessage(r) PROVE PlainUnsaid'
  BY <1>8, UnsaidBySend DEF handleSendMessage
<1>9. ASSUME NEW r \in Request, handleStreamUpdate(r) PROVE PlainUnsaid'
  BY <1>9 DEF handleStreamUpdate, RequestsOK, RefsOK, SaidOK, PlainUnsaid
<1>10. ASSUME NEW r \in Request, StreamEnds(r) PROVE PlainUnsaid'
  BY <1>10, NatFacts DEF StreamEnds, kept, updateMessages, FlushAnd, RequestsOK, RefsOK,
     FlagsOK, Request, StreamRefs, PlainUnsaid
<1>11. ASSUME NEW r \in Request, StreamDropped(r) PROVE PlainUnsaid'
  BY <1>11, NatFacts DEF StreamDropped, refs, buffers, kept, storage, RequestsOK, RefsOK,
     FlagsOK, Request, StreamRefs, PlainUnsaid
<1>12. ASSUME NEW r \in Request, PlainReturns(r) PROVE PlainUnsaid'
  BY <1>12 DEF PlainReturns, RequestsOK, RefsOK, SaidOK, PlainUnsaid
<1>13. ASSUME NEW r \in Request, LateReport(r) PROVE PlainUnsaid'
  BY <1>13 DEF LateReport, RequestsOK, RefsOK, SaidOK, PlainUnsaid
<1>14. ASSUME NEW r \in Request, NEW i \in DOMAIN messages, handleRegenerateMessage(i, r)
      PROVE  PlainUnsaid'
  BY <1>14, UnsaidBySend DEF handleRegenerateMessage
<1>15. ASSUME NEW r \in Request, NEW i \in DOMAIN messages, SaveEditAndSubmit(i, r)
      PROVE  PlainUnsaid'
  BY <1>15, UnsaidBySend DEF SaveEditAndSubmit
<1>16. ASSUME NEW i \in DOMAIN messages, handleEditMessage(i) PROVE PlainUnsaid'
  BY <1>16, NatFacts DEF handleEditMessage, requests, refs, buffers, kept, storage,
     Generating, RequestsOK, RefsOK, FlagsOK, Request, StreamRefs, PlainUnsaid
<1>17. ASSUME NEW i \in DOMAIN messages, SaveEdit(i) PROVE PlainUnsaid'
  BY <1>17, NatFacts DEF SaveEdit, requests, refs, buffers, kept, updateMessages, RequestsOK,
     RefsOK, FlagsOK, Request, StreamRefs, PlainUnsaid
<1>18. ASSUME NEW i \in DOMAIN messages, handleDeleteMessage(i) PROVE PlainUnsaid'
  BY <1>18, NatFacts DEF handleDeleteMessage, requests, refs, buffers, kept, updateMessages,
     Generating, RequestsOK, RefsOK, FlagsOK, Request, StreamRefs, PlainUnsaid
<1>19. ASSUME NEW r \in Request, LateChunk(r) PROVE PlainUnsaid'
  BY <1>19 DEF LateChunk, RequestsOK, RefsOK, SaidOK, PlainUnsaid
<1> QED
  BY <1>1, <1>2, <1>3, <1>4, <1>5, <1>6, <1>7, <1>8, <1>9, <1>10, <1>11, <1>12, <1>13, <1>14,
     <1>15, <1>16, <1>17, <1>18, <1>19 DEF Next

LEMMA LeftLaterStep ==
    ASSUME RefsOK, LeftLater, Next
    PROVE  LeftLater'
<1>1. ASSUME FlushTimer PROVE LeftLater'
  BY <1>1, NatFacts DEF FlushTimer, requests, refs, kept, updateMessages, FlushAnd, RefsOK,
     Request, LeftLater
<1>2. ASSUME SaveTimer PROVE LeftLater'
  BY <1>2, NatFacts DEF SaveTimer, requests, refs, buffers, RefsOK, Request, LeftLater
<1>3. ASSUME Leave PROVE LeftLater'
  BY <1>3, NatFacts DEF Leave, Mount, LeaveWith, RefsOK, Request, LeftLater
<1>4. ASSUME Reload PROVE LeftLater'
  BY <1>4, NatFacts DEF Reload, Mount, RefsOK, Request, LeftLater
<1>5. ASSUME stopGeneration PROVE LeftLater'
  BY <1>5, NatFacts DEF stopGeneration, kept, updateMessages, FlushAnd, Generating, RefsOK,
     Request, LeftLater
<1>6. ASSUME handleEditOpenChange PROVE LeftLater'
  BY <1>6, NatFacts DEF handleEditOpenChange, requests, refs, buffers, kept, storage, RefsOK,
     Request, LeftLater
<1>7. ASSUME handleClearMessages PROVE LeftLater'
  BY <1>7, NatFacts DEF handleClearMessages, requests, refs, buffers, kept, updateMessages,
     Generating, RefsOK, Request, LeftLater
<1>8. ASSUME NEW r \in Request, handleSendMessage(r) PROVE LeftLater'
  BY <1>8, NatFacts DEF handleSendMessage, buffers, kept, sendChat, updateMessages,
     Generating, RefsOK, Request, LeftLater
<1>9. ASSUME NEW r \in Request, handleStreamUpdate(r) PROVE LeftLater'
  BY <1>9, NatFacts DEF handleStreamUpdate, refs, kept, storage, RefsOK, Request,
     LeftLater
<1>10. ASSUME NEW r \in Request, StreamEnds(r) PROVE LeftLater'
  BY <1>10, NatFacts DEF StreamEnds, kept, updateMessages, FlushAnd, RefsOK, Request,
     LeftLater
<1>11. ASSUME NEW r \in Request, StreamDropped(r) PROVE LeftLater'
  BY <1>11, NatFacts DEF StreamDropped, refs, buffers, kept, storage, RefsOK, Request,
     LeftLater
<1>12. ASSUME NEW r \in Request, PlainReturns(r) PROVE LeftLater'
  BY <1>12, NatFacts DEF PlainReturns, buffers, kept, updateMessages, FlushAnd, Finally,
     RefsOK, Request, LeftLater
<1>13. ASSUME NEW r \in Request, LateReport(r) PROVE LeftLater'
  BY <1>13, NatFacts DEF LateReport, refs, buffers, LateSave, RefsOK, Request,
     LeftLater
<1>14. ASSUME NEW r \in Request, NEW i \in DOMAIN messages, handleRegenerateMessage(i, r)
      PROVE  LeftLater'
  BY <1>14, NatFacts DEF handleRegenerateMessage, buffers, kept, sendChat, updateMessages,
     Generating, RefsOK, Request, LeftLater
<1>15. ASSUME NEW r \in Request, NEW i \in DOMAIN messages, SaveEditAndSubmit(i, r)
      PROVE  LeftLater'
  BY <1>15, NatFacts DEF SaveEditAndSubmit, buffers, kept, sendChat, updateMessages,
     Generating, RefsOK, Request, LeftLater
<1>16. ASSUME NEW i \in DOMAIN messages, handleEditMessage(i) PROVE LeftLater'
  BY <1>16, NatFacts DEF handleEditMessage, requests, refs, buffers, kept, storage,
     Generating, RefsOK, Request, LeftLater
<1>17. ASSUME NEW i \in DOMAIN messages, SaveEdit(i) PROVE LeftLater'
  BY <1>17, NatFacts DEF SaveEdit, requests, refs, buffers, kept, updateMessages, RefsOK,
     Request, LeftLater
<1>18. ASSUME NEW i \in DOMAIN messages, handleDeleteMessage(i) PROVE LeftLater'
  BY <1>18, NatFacts DEF handleDeleteMessage, requests, refs, buffers, kept, updateMessages,
     Generating, RefsOK, Request, LeftLater
<1>19. ASSUME NEW r \in Request, LateChunk(r) PROVE LeftLater'
  BY <1>19 DEF LateChunk, LeftLater
<1> QED
  BY <1>1, <1>2, <1>3, <1>4, <1>5, <1>6, <1>7, <1>8, <1>9, <1>10, <1>11, <1>12, <1>13, <1>14,
     <1>15, <1>16, <1>17, <1>18, <1>19 DEF Next

-----------------------------------------------------------------------------
(* Conversations whose answers fit *)

\* What is said grows, and an answer that fits goes on fitting.
LEMMA FitsGrow ==
    ASSUME NEW m \in Message, NEW st, NEW tx, NEW lo, NEW st2, NEW tx2, NEW lo2, FitsMessage(m, st, tx, lo),
           lo \subseteq lo2,
           \A q \in Request : /\ st2[q] = "none" => st[q] = "none"
                              /\ tx[q] \in Text /\ tx2[q] \in Text /\ IsPrefix(tx[q], tx2[q])
    PROVE  FitsMessage(m, st2, tx2, lo2)
<1>1. m.text \in Text
  BY DEF Message
<1>2. ASSUME m.from = "assistant", m.status # "error" /\ m.text # Edited /\ m.key \notin lo2
      PROVE  Follows(m.text, tx2[m.key])
  <2>1. m.key \in Request /\ Follows(m.text, tx[m.key])
    BY <1>2 DEF FitsMessage
  <2> QED
    BY <1>1, <2>1, FollowsGrows
<1> QED
  BY <1>2 DEF FitsMessage

LEMMA FitsChanged ==
    ASSUME NEW m \in Message, NEW st, NEW tx, NEW lo, FitsMessage(m, st, tx, lo),
           \A q \in Request : tx[q] \in Text
    PROVE  /\ FitsMessage(CompleteIfPending(m), st, tx, lo)
           /\ FitsMessage(WithError(m), st, tx, lo)
           /\ FitsMessage(normalizeStoredMessageForLoad(m), st, tx, lo)
<1>1. ASSUME NEW n \in Message, FitsMessage(n, st, tx, lo)
      PROVE  FitsMessage(CompleteIfPending(n), st, tx, lo) /\ FitsMessage(WithError(n), st, tx, lo)
  BY <1>1 DEF FitsMessage, CompleteIfPending, completeAssistantMessage, WithError, IsPending, Message
<1> DEFINE c == collapseRepeatedSectionSnapshots(m.text)
           n == [m EXCEPT !.text = c]
<1>2. m.text \in Text /\ c \in Text /\ (Repeated(m.text) = {} => c = m.text)
  BY CollapseFacts DEF Message
<1>3. m.text = Edited => c = Edited
  <2>1. Len(Edited) = 1
    BY DEF Edited
  <2>2. Repeated(Edited) = {}
    BY <2>1 DEF Repeated
  <2> QED
    BY <1>2, <2>2
<1>4. m.key \in Request /\ Follows(m.text, tx[m.key]) => Follows(c, tx[m.key])
  BY <1>2, FollowsLoaded
<1>5. normalizeStoredMessageForLoad(m) = n \/ normalizeStoredMessageForLoad(m) = CompleteIfPending(n)
  BY DEF normalizeStoredMessageForLoad, CompleteIfPending
<1> HIDE DEF c
<1>6. n \in Message /\ n.from = m.from /\ n.key = m.key /\ n.status = m.status /\ n.text = c
  BY <1>2 DEF Message
<1> HIDE DEF n
<1>7. FitsMessage(n, st, tx, lo)
  BY <1>3, <1>4, <1>6 DEF FitsMessage
<1> QED
  BY <1>1, <1>5, <1>6, <1>7

LEMMA FitsUpdate ==
    ASSUME NEW ms \in Conversation, NEW m, NEW st, NEW tx, NEW lo, Fits(ms, st, tx, lo),
           ms # <<>> => m \in Message /\ FitsMessage(m, st, tx, lo)
    PROVE  Fits(updateLastAssistantMessage(ms, m), st, tx, lo)
<1> DEFINE us == updateLastAssistantMessage(ms, m)
<1>1. /\ us \in Conversation /\ Len(us) = Len(ms)
      /\ \A i \in 1..Len(ms) :
           us[i] = IF i = Len(ms) /\ ms[i].from = "assistant" THEN m ELSE ms[i]
  BY UpdateLast
<1> HIDE DEF us
<1>2. ASSUME NEW i \in 1..Len(ms) PROVE FitsMessage(us[i], st, tx, lo)
  <2>1. ms # <<>>
    BY EmptySeq
  <2> QED
    BY <1>1, <2>1 DEF Fits
<1>3. Fits(us, st, tx, lo)
  BY <1>1, <1>2 DEF Fits
<1> QED
  BY <1>3 DEF us

LEMMA FitsTrim ==
    ASSUME NEW ms \in Conversation, NEW st, NEW tx, NEW lo, Fits(ms, st, tx, lo)
    PROVE  Fits(trimMessages(ms), st, tx, lo)
BY TrimFacts DEF Fits

LEMMA FitsLoad ==
    ASSUME NEW ms \in Conversation, TailPending(ms), NEW st, NEW tx, NEW lo, Fits(ms, st, tx, lo),
           \A q \in Request : tx[q] \in Text
    PROVE  Fits(loadMessages(ms), st, tx, lo)
<1> DEFINE ns == [i \in 1..Len(ms) |-> normalizeStoredMessageForLoad(ms[i])]
           ts == trimMessages(ns)
           ls == sanitizeMessagesOnLoad(ts)
<1>1. Len(ms) \in Nat /\ \A i \in 1..Len(ms) : ms[i] \in Message
  BY LenProperties, ElementOfSeq DEF Conversation
<1>2. \A i \in 1..Len(ms) : /\ normalizeStoredMessageForLoad(ms[i]) \in Message
                            /\ FitsMessage(normalizeStoredMessageForLoad(ms[i]), st, tx, lo)
  BY <1>1, ChangedMessages, FitsChanged DEF Fits
<1>3. ns \in Conversation /\ Len(ns) = Len(ms)
  <2>1. ns \in [1..Len(ms) -> Message]
    BY <1>2
  <2> QED
    BY <1>1, <2>1, SeqOfFunction DEF Conversation
<1>4. Fits(ns, st, tx, lo)
  BY <1>2, <1>3 DEF Fits
<1> HIDE DEF ns
<1>5. ts \in Conversation /\ Fits(ts, st, tx, lo)
  BY <1>3, <1>4, TrimFacts, FitsTrim
<1> HIDE DEF ts
<1>6. Len(ts) \in Nat /\ \A i \in 1..Len(ts) : ts[i] \in Message
  BY <1>5, LenProperties, ElementOfSeq DEF Conversation
<1>7. \A i \in 1..Len(ts) : ls[i] = WithError(ts[i]) \/ ls[i] = ts[i]
  BY DEF sanitizeMessagesOnLoad
<1>8. Len(ls) = Len(ts)
  <2>1. ls \in [1..Len(ts) -> Message]
    BY <1>6, ChangedMessages DEF sanitizeMessagesOnLoad
  <2> QED
    BY <1>6, <2>1, SeqOfFunction
<1> HIDE DEF ls
<1>9. Fits(ls, st, tx, lo)
  <2> SUFFICES ASSUME NEW i \in 1..Len(ts) PROVE FitsMessage(ls[i], st, tx, lo)
    BY <1>8 DEF Fits
  <2>1. ts[i] \in Message /\ FitsMessage(ts[i], st, tx, lo)
    BY <1>5, <1>6 DEF Fits
  <2>2. FitsMessage(WithError(ts[i]), st, tx, lo)
    BY <2>1, FitsChanged
  <2> QED
    BY <1>7, <2>1, <2>2
<1>10. loadMessages(ms) = ls
  BY DEF loadMessages, ns, ts, ls
<1> QED
  BY <1>9, <1>10

-----------------------------------------------------------------------------
(* The answer under way *)

Current == Last(messages)

\* The last message once what waits is flushed.
LEMMA FlushedAnswer ==
    ASSUME ConversationsOK, RequestsOK, SaidOK, StreamRefs, Tails, UnderWay, Generating
    PROVE  /\ messages # <<>> /\ Flushed \in Conversation /\ Len(Flushed) = Len(messages)
           /\ Flushed # <<>> /\ \A i \in 1..Len(messages) : i # Len(messages) => Flushed[i] = messages[i]
           /\ Last(Flushed) \in Message /\ IsPending(Last(Flushed))
           /\ Last(Flushed).key = Current.key /\ Current.key \in Request
           /\ Current.key \notin mistaken \union FlushMistakes(messages, buffer)
                => Last(Flushed).text = said[Current.key]
           /\ ~stream[Current.key] => Last(Flushed).text = <<>>
<1> DEFINE k == Current.key
<1>1. /\ messages # <<>> /\ IsPending(Current) /\ k \in Request
      /\ stream[k] /\ k \notin mistaken => Progress(k, Current.text, buffer, said[k])
      /\ ~stream[k] => Current.text = <<>> /\ said[k] = <<>> /\ ~isStreaming
  BY DEF UnderWay, Current
<1>2. Current \in Message /\ Current = messages[Len(messages)] /\ Len(messages) \in 1..Len(messages)
  BY <1>1, LastMessage DEF Current, ConversationsOK
<1>3. Current.text \in Text /\ Current.from = "assistant" /\ Current.status # "error" /\ buffer \in Text
  BY <1>1, <1>2 DEF Message, IsPending, ConversationsOK
<1>4. said[k] \in Text /\ stream[k] \in BOOLEAN
  BY <1>1 DEF SaidOK, RequestsOK, RefsOK
<1>5. Flushed \in Conversation /\ Len(Flushed) = Len(messages)
  BY FlushedFacts DEF Tails
<1>6. CASE buffer = <<>>
  <2>1. Flushed = messages
    BY <1>6 DEF Flushed
  <2>2. k \notin mistaken => Current.text = said[k]
    <3> DEFINE t == Current.text
               s == said[k]
    <3>1. stream[k] /\ k \notin mistaken => Progress(k, t, buffer, s)
      BY <1>1
    <3>2. t \in Text /\ s \in Text /\ (~stream[k] => t = s)
      BY <1>1, <1>3, <1>4
    <3> HIDE DEF t, s
    <3> HIDE DEF k
    <3>3. ASSUME stream[k] /\ k \notin mistaken PROVE t = s
      <4>1. Progress(k, t, buffer, s) /\ buffer \in Text
        BY <1>3, <3>1, <3>3
      <4> QED
        BY <1>6, <3>2, <4>1, FlushedText
    <3> QED
      BY <1>4, <3>2, <3>3 DEF t, s
  <2> QED
    BY <1>1, <1>2, <1>5, <2>1, <2>2 DEF Current
<1>7. CASE buffer # <<>>
  <2>1. isStreaming /\ stream[k]
    BY <1>1, <1>4, <1>7 DEF StreamRefs
  <2> DEFINE m == applyStreamingChunk(Current, buffer)
  <2>2. m \in Message /\ Flushed = updateLastAssistantMessage(messages, m)
    BY <1>2, <1>3, <1>7, StreamedMessage DEF Flushed, Current
  <2>3. /\ m.key = k /\ IsPending(m)
        /\ m.text = Current.text \o getAppendableChunk(Current.text, buffer)
    BY <1>2, <1>3 DEF applyStreamingChunk, IsPending, Message
  <2> HIDE DEF m
  <2>4. \A i \in 1..Len(messages) :
           Flushed[i] = IF i = Len(messages) /\ messages[i].from = "assistant" THEN m ELSE messages[i]
    BY <2>2, UpdateLast DEF ConversationsOK
  <2>5. Flushed[Len(Flushed)] = m
    BY <1>2, <1>3, <1>5, <2>4
  <2>6. Flushed # <<>> /\ Last(Flushed) = m
    BY <1>2, <1>5, <2>5, EmptySeq DEF Last
  <2>7. ASSUME k \notin mistaken \union FlushMistakes(messages, buffer) PROVE m.text = said[k]
    <3>1. FlushMistakes(messages, buffer) = Mistaken(k, Current.text, buffer)
      BY <1>1, <1>3 DEF FlushMistakes, Current
    <3>2. Mistaken(k, Current.text, buffer) = {}
      BY <2>7, <3>1 DEF Mistaken
    <3> DEFINE t == Current.text
               s == said[k]
    <3>3. Progress(k, t, buffer, s) /\ t \in Text /\ s \in Text /\ buffer \in Text /\ buffer # <<>>
      BY <1>1, <1>3, <1>4, <1>7, <2>1, <2>7
    <3>4. Mistaken(k, t, buffer) = {} /\ m.text = t \o getAppendableChunk(t, buffer)
      BY <2>3, <3>2
    <3> HIDE DEF t, s, k
    <3>5. t \o getAppendableChunk(t, buffer) = s
      BY <3>3, <3>4, FlushedText
    <3> QED
      BY <3>4, <3>5 DEF s
  <2> QED
    BY <1>1, <1>5, <2>1, <2>2, <2>3, <2>4, <2>6, <2>7
<1> QED
  BY <1>6, <1>7

LEMMA FlushedWhole ==
    ASSUME ConversationsOK, RequestsOK, SaidOK, StreamRefs, Tails, UnderWay, Generating, NEW m, FlushAnd(m)
    PROVE  Current.key \notin mistaken' => Last(Flushed).text = said[Current.key]
BY FlushedAnswer DEF FlushAnd

\* What a step that writes the last answer leaves.
LEMMA LastWritten ==
    ASSUME NEW ms \in Conversation, ms # <<>>, Last(ms).from = "assistant", NEW m \in Message
    PROVE  LET us == updateLastAssistantMessage(ms, m) IN
           /\ us # <<>> /\ Len(us) = Len(ms) /\ Last(us) = m
           /\ \A i \in 1..Len(ms) : us[i] = IF i = Len(ms) THEN m ELSE ms[i]
<1> DEFINE us == updateLastAssistantMessage(ms, m)
<1>1. /\ us \in Conversation /\ Len(us) = Len(ms)
      /\ \A i \in 1..Len(ms) :
           us[i] = IF i = Len(ms) /\ ms[i].from = "assistant" THEN m ELSE ms[i]
  BY UpdateLast
<1>2. Len(ms) \in 1..Len(ms) /\ Last(ms) = ms[Len(ms)]
  BY LastMessage
<1> HIDE DEF us
<1>3. us # <<>> /\ Last(us) = m
  BY <1>1, <1>2, EmptySeq DEF Last
<1> QED
  BY <1>1, <1>2, <1>3 DEF us

-----------------------------------------------------------------------------
(* Where the messages come from *)

\* An answer that a step wrote: all that was said so far, unless something was lost, to a
\* request that goes on only if the answer is under way.
Written(m, stages, texts, lost) ==
    m.from = "assistant" =>
        /\ m.key \in Request /\ stages[m.key] # "none"
        /\ m.status # "error" /\ m.key \notin lost => m.text = texts[m.key]
        /\ ~IsPending(m) => stages[m.key] # "open"

Reworded(m, n) ==
    m.from = n.from /\ m.key = n.key /\ m.text = Edited /\ (IsPending(m) <=> IsPending(n))

\* A message that was there, or was edited by the user, or was written by this step.
Element(m, ms, stages, texts, lost) ==
    \/ \E i \in 1..Len(ms) : m = ms[i] \/ Reworded(m, ms[i])
    \/ Written(m, stages, texts, lost)

LEMMA ElementFits ==
    ASSUME NEW ms \in Conversation, NEW m \in Message, NEW st, NEW tx, NEW lo, NEW st2, NEW tx2, NEW lo2,
           Fits(ms, st, tx, lo), Element(m, ms, st2, tx2, lo2), lo \subseteq lo2,
           \A q \in Request : /\ st2[q] = "none" => st[q] = "none"
                              /\ tx[q] \in Text /\ tx2[q] \in Text /\ IsPrefix(tx[q], tx2[q])
    PROVE  FitsMessage(m, st2, tx2, lo2)
<1>1. CASE Written(m, st2, tx2, lo2)
  BY <1>1, PrefixFacts, FollowsPrefix DEF Written, FitsMessage
<1>2. ASSUME NEW i \in 1..Len(ms), m = ms[i] \/ Reworded(m, ms[i]) PROVE FitsMessage(m, st2, tx2, lo2)
  <2>1. FitsMessage(ms[i], st, tx, lo) /\ ms[i] \in Message
    BY ElementOfSeq DEF Fits, Conversation
  <2>2. FitsMessage(ms[i], st2, tx2, lo2)
    BY <2>1, FitsGrow
  <2> QED
    BY <1>2, <2>2 DEF FitsMessage, Reworded
<1> QED
  BY <1>1, <1>2 DEF Element

LEMMA ElementWhole ==
    ASSUME NEW ms \in Conversation, NEW m \in Message, NEW st, NEW tx, NEW lo, NEW st2, NEW tx2, NEW lo2,
           Fits(ms, st, tx, lo), \A i \in 1..Len(ms) : WholeMessage(ms[i], st, tx, lo),
           Element(m, ms, st2, tx2, lo2), lo \subseteq lo2,
           \A q \in Request : /\ st[q] \notin {"none", "open"} => st2[q] # "open"
                              /\ st[q] # "open" => tx2[q] = tx[q]
    PROVE  WholeMessage(m, st2, tx2, lo2)
<1>1. CASE Written(m, st2, tx2, lo2)
  BY <1>1 DEF Written, WholeMessage
<1>2. ASSUME NEW i \in 1..Len(ms), m = ms[i] \/ Reworded(m, ms[i]) PROVE WholeMessage(m, st2, tx2, lo2)
  <2>1. FitsMessage(ms[i], st, tx, lo) /\ WholeMessage(ms[i], st, tx, lo)
    BY DEF Fits
  <2> QED
    BY <1>2, <2>1 DEF FitsMessage, WholeMessage, Reworded
<1> QED
  BY <1>1, <1>2 DEF Element

\* Overlaps and mistakes are not forgotten.
History == (overlapped => overlapped') /\ mistaken \subseteq mistaken'

LEMMA HistoryStep ==
    ASSUME Next
    PROVE  History
<1>1. ASSUME FlushTimer PROVE History
  BY <1>1 DEF History, FlushTimer, requests, refs, kept, updateMessages, FlushAnd
<1>2. ASSUME SaveTimer PROVE History
  BY <1>2 DEF History, SaveTimer, requests, refs, buffers
<1>3. ASSUME Leave PROVE History
  BY <1>3 DEF History, Leave, Mount, LeaveWith
<1>4. ASSUME Reload PROVE History
  BY <1>4 DEF History, Reload, Mount
<1>5. ASSUME stopGeneration PROVE History
  BY <1>5 DEF History, stopGeneration, kept, updateMessages, FlushAnd, Generating
<1>6. ASSUME handleEditOpenChange PROVE History
  BY <1>6 DEF History, handleEditOpenChange, requests, refs, buffers, kept, storage
<1>7. ASSUME handleClearMessages PROVE History
  BY <1>7 DEF History, handleClearMessages, requests, refs, buffers, kept, updateMessages, Generating
<1>8. ASSUME NEW r \in Request, handleSendMessage(r) PROVE History
  BY <1>8 DEF History, handleSendMessage, buffers, kept, sendChat, updateMessages, Generating
<1>9. ASSUME NEW r \in Request, handleStreamUpdate(r) PROVE History
  BY <1>9 DEF History, handleStreamUpdate, refs, kept, storage
<1>10. ASSUME NEW r \in Request, StreamEnds(r) PROVE History
  BY <1>10 DEF History, StreamEnds, kept, updateMessages, FlushAnd
<1>11. ASSUME NEW r \in Request, StreamDropped(r) PROVE History
  BY <1>11 DEF History, StreamDropped, refs, buffers, kept, storage
<1>12. ASSUME NEW r \in Request, PlainReturns(r) PROVE History
  BY <1>12 DEF History, PlainReturns, buffers, kept, updateMessages, FlushAnd, Finally
<1>13. ASSUME NEW r \in Request, LateReport(r) PROVE History
  BY <1>13 DEF History, LateReport, refs, buffers, LateSave
<1>14. ASSUME NEW r \in Request, NEW i \in DOMAIN messages, handleRegenerateMessage(i, r)
      PROVE  History
  BY <1>14 DEF History, handleRegenerateMessage, buffers, kept, sendChat, updateMessages, Generating
<1>15. ASSUME NEW r \in Request, NEW i \in DOMAIN messages, SaveEditAndSubmit(i, r)
      PROVE  History
  BY <1>15 DEF History, SaveEditAndSubmit, buffers, kept, sendChat, updateMessages, Generating
<1>16. ASSUME NEW i \in DOMAIN messages, handleEditMessage(i) PROVE History
  BY <1>16 DEF History, handleEditMessage, requests, refs, buffers, kept, storage, Generating
<1>17. ASSUME NEW i \in DOMAIN messages, SaveEdit(i) PROVE History
  BY <1>17 DEF History, SaveEdit, requests, refs, buffers, kept, updateMessages
<1>18. ASSUME NEW i \in DOMAIN messages, handleDeleteMessage(i) PROVE History
  BY <1>18 DEF History, handleDeleteMessage, requests, refs, buffers, kept, updateMessages, Generating
<1>19. ASSUME NEW r \in Request, LateChunk(r) PROVE History
  BY <1>19 DEF LateChunk, History
<1> QED
  BY <1>1, <1>2, <1>3, <1>4, <1>5, <1>6, <1>7, <1>8, <1>9, <1>10, <1>11, <1>12, <1>13, <1>14,
     <1>15, <1>16, <1>17, <1>18, <1>19 DEF Next

Elements == \A j \in 1..Len(messages') : Element(messages'[j], messages, stage', said', mistaken')

LEMMA Unwritten ==
    ASSUME UNCHANGED messages
    PROVE  Elements
BY DEF Elements, Element

\* A step that flushes and writes the last answer.
LEMMA FlushWrites ==
    ASSUME ConversationsOK, RequestsOK, SaidOK, StreamRefs, Tails, UnderWay, Generating,
           NEW m \in Message, m.from = "assistant", FlushAnd(m)
    PROVE  /\ Written(m, stage', said', mistaken') => Elements
           /\ messages' # <<>> /\ Last(messages') = m /\ Len(messages') = Len(messages)
<1>1. /\ messages # <<>> /\ Flushed \in Conversation /\ Len(Flushed) = Len(messages)
      /\ Flushed # <<>> /\ \A i \in 1..Len(messages) : i # Len(messages) => Flushed[i] = messages[i]
      /\ Last(Flushed).from = "assistant"
  BY FlushedAnswer DEF IsPending
<1>2. messages' = updateLastAssistantMessage(Flushed, m)
  BY DEF FlushAnd, updateMessages
<1>3. /\ messages' # <<>> /\ Len(messages') = Len(messages) /\ Last(messages') = m
      /\ \A i \in 1..Len(messages) : messages'[i] = IF i = Len(messages) THEN m ELSE Flushed[i]
  BY <1>1, <1>2, LastWritten
<1>4. ASSUME Written(m, stage', said', mistaken'), NEW j \in 1..Len(messages')
      PROVE  Element(messages'[j], messages, stage', said', mistaken')
  <2>1. j \in 1..Len(messages) /\ messages'[j] \in {m, messages[j]}
    BY <1>1, <1>3
  <2> QED
    BY <1>4, <2>1 DEF Element
<1> QED
  BY <1>3, <1>4 DEF Elements

\* A request that is sent: the answer under way is empty.
LEMMA LoadingWritten ==
    ASSUME RefsOK, StreamRefs, PlainUnsaid, NEW r \in Request, sendChat(r)
    PROVE  /\ Written(Loading(r), stage', said', mistaken') /\ Loading(r).from = "assistant"
           /\ stage[r] = "none" /\ stage'[r] = "open" /\ said'[r] = <<>>
<1>1. stage[r] = "none" /\ said' = said
  BY NatFacts DEF sendChat, Request
<1>2. stage'[r] = "open"
  BY DEF sendChat, RefsOK
<1>3. said'[r] = <<>>
  BY <1>1 DEF StreamRefs, PlainUnsaid
<1> QED
  BY <1>1, <1>2, <1>3 DEF Written, Loading, IsPending

LEMMA ElementsStep ==
    ASSUME IInv, RequestsOK', PlainUnsaid, Answers, ~overlapped, UNCHANGED mounts, Next
    PROVE  Elements
<1>  USE DEF IInv, Answers
<1>1. ASSUME FlushTimer PROVE Elements
  <2>1. FlushAnd(Last(Flushed)) /\ said' = said /\ stage' = stage
    BY <1>1 DEF FlushTimer, requests
  <2>2. CASE Generating
    <3>1. /\ Last(Flushed) \in Message /\ IsPending(Last(Flushed)) /\ Last(Flushed).key = Current.key
          /\ Current.key \in Request
          /\ Current.key \notin mistaken' => Last(Flushed).text = said[Current.key]
      BY <2>1, <2>2, FlushedAnswer, FlushedWhole
    <3>2. stage[Current.key] \in {"open", "ended"}
      BY <2>2 DEF UnderWay, Current
    <3>3. Written(Last(Flushed), stage', said', mistaken') /\ Last(Flushed).from = "assistant"
      BY <2>1, <3>1, <3>2 DEF Written, IsPending
    <3> QED
      BY <2>1, <2>2, <3>1, <3>3, FlushWrites
  <2>3. CASE ~Generating
    <3>1. messages' = updateLastAssistantMessage(messages, Last(messages))
      BY <2>1, <2>3 DEF FlushAnd, updateMessages, Flushed, Idle
    <3>2. messages # <<>> => Last(messages) \in Message /\ Last(messages) = messages[Len(messages)]
      BY LastMessage DEF ConversationsOK
    <3>3. /\ Len(messages') = Len(messages)
          /\ \A i \in 1..Len(messages) : messages'[i] = IF i = Len(messages) /\ messages[i].from = "assistant"
                                                        THEN Last(messages) ELSE messages[i]
      BY <3>1, <3>2, UpdateLast DEF ConversationsOK
    <3>4. \A i \in 1..Len(messages) : messages # <<>> /\ messages'[i] = messages[i]
      BY <3>2, <3>3, EmptySeq
    <3> QED
      BY <3>3, <3>4 DEF Elements, Element
  <2> QED
    BY <2>2, <2>3
<1>2. ASSUME SaveTimer PROVE Elements
  BY <1>2, Unwritten DEF SaveTimer
<1>3. ASSUME Leave PROVE Elements
  BY <1>3, NatFacts DEF Leave, LeaveWith, Mount, RequestsOK, RefsOK
<1>4. ASSUME Reload PROVE Elements
  BY <1>4, NatFacts DEF Reload, Mount, RequestsOK, RefsOK
<1>5. ASSUME stopGeneration PROVE Elements
  <2> DEFINE k == Current.key
             m == CompleteIfPending(Last(Flushed))
  <2>1. Generating /\ FlushAnd(m) /\ said' = said
    BY <1>5 DEF stopGeneration
  <2>2. /\ Last(Flushed) \in Message /\ IsPending(Last(Flushed)) /\ Last(Flushed).key = k
        /\ k \in Request /\ stage[k] \in {"open", "ended"}
        /\ k \notin mistaken' => Last(Flushed).text = said[k]
    <3>1. k \in Request /\ stage[k] \in {"open", "ended"}
      BY <2>1 DEF UnderWay, Current
    <3> QED
      BY <2>1, <3>1, FlushedAnswer, FlushedWhole
  <2>3. /\ m \in Message /\ m.from = "assistant" /\ m.key = k /\ ~IsPending(m)
        /\ k \notin mistaken' => m.text = said[k]
    BY <2>2, ChangedMessages DEF CompleteIfPending, completeAssistantMessage, IsPending, Message
  <2>4. stage'[k] \notin {"none", "open"}
    <3>1. stage[k] = "open" => k = source \/ k = controller
      BY <2>2 DEF StreamRefs, Awaiting
    <3>2. stage'[k] = IF k = source THEN "ended" ELSE IF k = controller THEN "aborted" ELSE stage[k]
      BY <1>5, <2>2 DEF stopGeneration
    <3> QED
      BY <2>2, <3>1, <3>2
  <2> HIDE DEF m
  <2>5. Written(m, stage', said', mistaken')
    BY <2>1, <2>2, <2>3, <2>4 DEF Written
  <2> QED
    BY <2>1, <2>3, <2>5, FlushWrites
<1>6. ASSUME handleEditOpenChange PROVE Elements
  BY <1>6, Unwritten DEF handleEditOpenChange
<1>7. ASSUME handleClearMessages PROVE Elements
  BY <1>7, EmptyText DEF handleClearMessages, updateMessages, Elements
<1>8. ASSUME NEW r \in Request, handleSendMessage(r) PROVE Elements
  <2>1. NonePending(messages) /\ Len(messages) \in Nat
    BY <1>8, LenProperties DEF handleSendMessage, Idle, ConversationsOK, Conversation
  <2>2. messages' = messages \o <<User(r), Loading(r)>>
    BY <1>8 DEF handleSendMessage, updateMessages
  <2>3. /\ Len(messages') = Len(messages) + 2
        /\ \A i \in 1..Len(messages) : messages'[i] = messages[i]
        /\ messages'[Len(messages) + 1] = User(r) /\ messages'[Len(messages) + 2] = Loading(r)
    BY <2>1, <2>2, ThenQuestion DEF ConversationsOK
  <2>4. Written(Loading(r), stage', said', mistaken') /\ Written(User(r), stage', said', mistaken')
    <3>1. Written(Loading(r), stage', said', mistaken')
      BY <1>8, LoadingWritten DEF handleSendMessage, RequestsOK
    <3> QED
      BY <3>1 DEF User, Written
  <2>5. \A j \in 1..Len(messages') : \/ j \in 1..Len(messages)
                                     \/ j = Len(messages) + 1 \/ j = Len(messages) + 2
    BY <2>1, <2>3
  <2> QED
    BY <2>3, <2>4, <2>5 DEF Elements, Element
<1>9. ASSUME NEW r \in Request, handleStreamUpdate(r) PROVE Elements
  BY <1>9, Unwritten DEF handleStreamUpdate
<1>10. ASSUME NEW r \in Request, StreamEnds(r) PROVE Elements
  <2> DEFINE k == Current.key
  <2>1. Generating /\ r = k /\ stage'[r] = "ended" /\ said' = said
    <3>1. stage[r] = "open" /\ Generating
      BY <1>10 DEF StreamEnds, Awaiting
    <3>2. r = k
      BY <3>1 DEF UnderWay, Current
    <3>3. stage'[r] = "ended"
      BY <1>10 DEF StreamEnds, RequestsOK, RefsOK
    <3> QED
      BY <1>10, <3>1, <3>2, <3>3 DEF StreamEnds
  <2>2. /\ Last(Flushed) \in Message /\ IsPending(Last(Flushed)) /\ Last(Flushed).key = k
    BY <2>1, FlushedAnswer
  <2>3. ASSUME NEW m, m \in {CompleteIfPending(Last(Flushed)), WithError(Last(Flushed))}, FlushAnd(m)
        PROVE  Elements
    <3>1. /\ m \in Message /\ m.from = "assistant" /\ m.key = k
          /\ m.status # "error" /\ k \notin mistaken' => m.text = said[k]
      <4>0. k \notin mistaken' => Last(Flushed).text = said[k]
        BY <2>1, <2>3, FlushedWhole
      <4>1. CASE m = CompleteIfPending(Last(Flushed))
        BY <2>2, <4>0, <4>1, ChangedMessages
         DEF CompleteIfPending, completeAssistantMessage, IsPending, Message
      <4>2. CASE m = WithError(Last(Flushed))
        BY <2>2, <4>2, ChangedMessages, ZenonT(20) DEF WithError, IsPending, Message
      <4> QED
        BY <2>3, <4>1, <4>2
    <3>2. Written(m, stage', said', mistaken')
      BY <2>1, <3>1 DEF Written
    <3> QED
      BY <2>1, <2>3, <3>1, <3>2, FlushWrites
  <2> QED
    BY <1>10, <2>3 DEF StreamEnds
<1>11. ASSUME NEW r \in Request, StreamDropped(r) PROVE Elements
  BY <1>11, Unwritten DEF StreamDropped
<1>12. ASSUME NEW r \in Request, PlainReturns(r) PROVE Elements
  <2>1. CASE UNCHANGED messages
    BY <2>1, Unwritten
  <2>2. ASSUME stage[r] = "open"
        PROVE  Generating /\ r = Current.key /\ stage'[r] = "ended"
    <3>1. Generating
      BY <2>2 DEF Awaiting
    <3>2. r = Current.key
      BY <2>2, <3>1 DEF UnderWay, Current
    <3> QED
      BY <1>12, <3>1, <3>2 DEF PlainReturns, RequestsOK, RefsOK
  <2>3. ASSUME NEW d \in Delta, stage[r] = "open", said' = [said EXCEPT ![r] = d],
               updateMessages(updateLastAssistantMessage(messages, WithAnswer(Last(messages), d)))
        PROVE  Elements
    <3> DEFINE m == WithAnswer(Current, d)
    <3>1. messages # <<>> /\ IsPending(Current) /\ Current \in Message
      BY <2>2, <2>3, LastMessage DEF UnderWay, Current, ConversationsOK
    <3>2. m \in Message /\ m.from = "assistant" /\ m.key = r /\ m.text = d
      BY <2>2, <2>3, <3>1, ChangedMessages, ZenonT(20) DEF WithAnswer, IsPending, Message
    <3>3. said'[r] = d
      BY <2>3 DEF SaidOK
    <3> HIDE DEF m
    <3>4. Written(m, stage', said', mistaken')
      BY <2>2, <2>3, <3>2, <3>3 DEF Written
    <3>5. messages' = updateLastAssistantMessage(messages, m)
      BY <2>3 DEF updateMessages, m, Current
    <3>6. /\ Len(messages') = Len(messages)
          /\ \A i \in 1..Len(messages) : messages'[i] = IF i = Len(messages) THEN m ELSE messages[i]
      BY <3>1, <3>2, <3>5, LastWritten DEF ConversationsOK, Current, IsPending
    <3> QED
      BY <3>4, <3>6 DEF Elements, Element
  <2>4. CASE stage[r] = "open" /\ FlushAnd(WithError(Last(Flushed))) /\ UNCHANGED said
    <3> DEFINE m == WithError(Last(Flushed))
    <3>1. /\ Last(Flushed) \in Message /\ IsPending(Last(Flushed)) /\ Last(Flushed).key = r
      BY <2>2, <2>4, FlushedAnswer
    <3>2. m \in Message /\ m.from = "assistant" /\ m.key = r /\ m.status = "error"
      BY <3>1, ChangedMessages, ZenonT(20) DEF WithError, IsPending, Message
    <3> HIDE DEF m
    <3>3. Written(m, stage', said', mistaken')
      BY <2>2, <2>4, <3>2 DEF Written
    <3>4. FlushAnd(m)
      BY <2>4 DEF m
    <3> QED
      BY <2>2, <2>4, <3>2, <3>3, <3>4, FlushWrites
  <2> QED
    BY <1>12, <2>1, <2>3, <2>4 DEF PlainReturns
<1>13. ASSUME NEW r \in Request, LateReport(r) PROVE Elements
  BY <1>13, Unwritten DEF LateReport
<1>14. ASSUME NEW r \in Request, NEW i \in DOMAIN messages, handleRegenerateMessage(i, r)
      PROVE  Elements
  <2> DEFINE n == IF messages[i].from = "user" THEN i ELSE i - 1
  <2>1. n \in 0..Len(messages) /\ n \in Nat /\ \A j \in 1..n : ~IsPending(messages[j])
    <3>1. NonePending(messages) /\ i \in 1..Len(messages) /\ Len(messages) \in Nat
      BY <1>14, LenProperties DEF handleRegenerateMessage, Idle, ConversationsOK, Conversation
    <3>2. n \in 0..Len(messages)
      BY <3>1
    <3> QED
      BY <3>1, <3>2 DEF NonePending
  <2>2. messages' = SubSeq(messages, 1, n) \o <<Loading(r)>>
    BY <1>14 DEF handleRegenerateMessage, updateMessages
  <2> HIDE DEF n
  <2>3. /\ Len(messages') = n + 1 /\ messages'[n + 1] = Loading(r)
        /\ \A j \in 1..n : messages'[j] = messages[j]
    BY <2>1, <2>2, ThenLoading DEF ConversationsOK
  <2>4. Written(Loading(r), stage', said', mistaken')
    BY <1>14, LoadingWritten DEF handleRegenerateMessage, RequestsOK
  <2>5. \A j \in 1..n + 1 : j = n + 1 \/ (j \in 1..n /\ j \in 1..Len(messages))
    BY <2>1
  <2> QED
    BY <2>3, <2>4, <2>5 DEF Elements, Element
<1>15. ASSUME NEW r \in Request, NEW i \in DOMAIN messages, SaveEditAndSubmit(i, r)
      PROVE  Elements
  <2> DEFINE es == [messages EXCEPT ![i].text = Edited]
  <2>1. /\ es \in Conversation /\ Len(es) = Len(messages)
        /\ \A j \in 1..Len(messages) : IsPending(es[j]) <=> IsPending(messages[j])
        /\ \A j \in 1..Len(messages) : j # i => es[j] = messages[j]
        /\ es[i].from = messages[i].from /\ es[i].key = messages[i].key /\ es[i].text = Edited
    BY EditFacts DEF ConversationsOK
  <2>2. i \in 1..Len(messages) /\ Len(messages) \in Nat /\ i \in 0..Len(es)
    BY <2>1, LenProperties DEF ConversationsOK, Conversation
  <2>3. ~IsPending(messages[i])
    BY <1>15 DEF SaveEditAndSubmit, IsPending
  <2>4. \A j \in 1..i : ~IsPending(es[j])
    BY <2>1, <2>2, <2>3 DEF Tails, TailPending
  <2>5. messages' = SubSeq(es, 1, i) \o <<Loading(r)>>
    BY <1>15 DEF SaveEditAndSubmit, updateMessages
  <2> HIDE DEF es
  <2>6. /\ Len(messages') = i + 1 /\ messages'[i + 1] = Loading(r)
        /\ \A j \in 1..i : messages'[j] = es[j]
    BY <2>1, <2>2, <2>4, <2>5, ThenLoading
  <2>7. Written(Loading(r), stage', said', mistaken')
    BY <1>15, LoadingWritten DEF SaveEditAndSubmit, RequestsOK
  <2>8. Reworded(es[i], messages[i])
    BY <2>1, <2>2 DEF Reworded
  <2>9. \A j \in 1..i + 1 : j = i + 1 \/ (j \in 1..i /\ j \in 1..Len(messages))
    BY <2>2
  <2>10. \A j \in 1..i : messages'[j] = messages[j] \/ Reworded(messages'[j], messages[j])
    BY <2>1, <2>2, <2>6, <2>8
  <2> QED
    BY <2>6, <2>7, <2>9, <2>10 DEF Elements, Element
<1>16. ASSUME NEW i \in DOMAIN messages, handleEditMessage(i) PROVE Elements
  BY <1>16, Unwritten DEF handleEditMessage
<1>17. ASSUME NEW i \in DOMAIN messages, SaveEdit(i) PROVE Elements
  <2> DEFINE es == [messages EXCEPT ![i].text = Edited]
  <2>1. /\ Len(es) = Len(messages)
        /\ \A j \in 1..Len(messages) : IsPending(es[j]) <=> IsPending(messages[j])
        /\ \A j \in 1..Len(messages) : j # i => es[j] = messages[j]
        /\ es[i].from = messages[i].from /\ es[i].key = messages[i].key /\ es[i].text = Edited
    BY EditFacts DEF ConversationsOK
  <2>2. messages' = es
    BY <1>17 DEF SaveEdit, updateMessages
  <2> HIDE DEF es
  <2>3. \A j \in 1..Len(messages) : es[j] = messages[j] \/ Reworded(es[j], messages[j])
    BY <2>1 DEF Reworded
  <2> QED
    BY <2>1, <2>2, <2>3 DEF Elements, Element
<1>18. ASSUME NEW i \in DOMAIN messages, handleDeleteMessage(i) PROVE Elements
  <2>1. NonePending(messages) /\ messages' = RemoveAt(messages, i)
    BY <1>18 DEF handleDeleteMessage, updateMessages, Idle
  <2> QED
    BY <2>1, DeleteFacts DEF ConversationsOK, Elements, Element
<1>19. ASSUME NEW r \in Request, LateChunk(r) PROVE Elements
  BY <1>19, Unwritten DEF LateChunk
<1> QED
  BY <1>1, <1>2, <1>3, <1>4, <1>5, <1>6, <1>7, <1>8, <1>9, <1>10, <1>11, <1>12, <1>13, <1>14,
     <1>15, <1>16, <1>17, <1>18, <1>19 DEF Next

-----------------------------------------------------------------------------
(* Answers keep fitting *)

Growth ==
    /\ mistaken \subseteq mistaken'
    /\ \A q \in Request : /\ stage'[q] = "none" => stage[q] = "none"
                         /\ said[q] \in Text /\ said'[q] \in Text
                         /\ IsPrefix(said[q], said'[q])

LEMMA GrowthStep ==
    ASSUME RefsOK, SaidOK, SaidOK', PlainUnsaid, Next
    PROVE  /\ Growth
           /\ \A q \in Request : stage[q] \notin {"open", "left"} => said'[q] = said[q]
           /\ \A q \in Request : stage'[q] = "open" => stage[q] \in {"none", "open"}
<1>1. \A q \in Request : SaidMore(q)
  BY SaidSteps
<1>2. \A q \in Request : said[q] \in Text /\ said'[q] \in Text
  BY DEF SaidOK
<1>3. ASSUME NEW q \in Request PROVE IsPrefix(said[q], said'[q])
  <2>1. CASE said'[q] = said[q]
    BY <1>2, <2>1, PrefixFacts
  <2>2. ASSUME stage[q] \in {"open", "left"}, stream[q], NEW d \in Delta, said'[q] = said[q] \o d
        PROVE  IsPrefix(said[q], said'[q])
    BY <1>2, <2>2, MadeMessages, PrefixOfConcat
  <2>3. CASE stage[q] \in {"open", "left"} /\ ~stream[q]
    <3>1. said[q] = <<>>
      BY <2>3 DEF PlainUnsaid
    <3> QED
      BY <1>2, <3>1, PrefixFacts
  <2> QED
    BY <1>1, <2>1, <2>2, <2>3 DEF SaidMore
<1>4. mistaken \subseteq mistaken'
  BY HistoryStep DEF History
<1> QED
  BY <1>1, <1>2, <1>3, <1>4 DEF Growth, SaidMore

LEMMA GrownFit ==
    ASSUME NEW ms \in Conversation, NEW st, NEW tx, NEW lo, NEW st2, NEW tx2, NEW lo2, Fits(ms, st, tx, lo),
           lo \subseteq lo2,
           \A q \in Request : /\ st2[q] = "none" => st[q] = "none"
                              /\ tx[q] \in Text /\ tx2[q] \in Text /\ IsPrefix(tx[q], tx2[q])
    PROVE  Fits(ms, st2, tx2, lo2)
<1> SUFFICES ASSUME NEW i \in 1..Len(ms) PROVE FitsMessage(ms[i], st2, tx2, lo2)
  BY DEF Fits
<1>1. ms[i] \in Message /\ FitsMessage(ms[i], st, tx, lo)
  BY ElementOfSeq DEF Fits, Conversation
<1> QED
  BY <1>1, FitsGrow

StoredFit == Fits(stored', stage', said', mistaken') /\ \A q \in Request : Fits(left'[q], stage', said', mistaken')

LEMMA StoredFitStep ==
    ASSUME ConversationsOK, Tails, RequestsOK, SaidOK, LeftWhole, Growth, Next,
           Fits(messages, stage', said', mistaken'), Fits(stored, stage', said', mistaken'),
           \A q \in Request : Fits(left[q], stage', said', mistaken')
    PROVE  StoredFit
<1>1. ASSUME FlushTimer PROVE StoredFit
  BY <1>1 DEF FlushTimer, kept, StoredFit
<1>2. ASSUME SaveTimer PROVE StoredFit
  BY <1>2, FitsTrim DEF SaveTimer, ConversationsOK, StoredFit
<1>3. ASSUME Leave PROVE StoredFit
  <2>1. /\ trimMessages(messages) \in Conversation /\ TailPending(trimMessages(messages))
        /\ Fits(trimMessages(messages), stage', said', mistaken')
    BY TrimFacts, TrimTail, FitsTrim DEF ConversationsOK, Tails
  <2>2. PICK ms \in Conversation : TailPending(ms) /\ LeaveWith(ms) /\ Fits(ms, stage', said', mistaken')
    BY <1>3, <2>1 DEF Leave, ConversationsOK, Tails
  <2>3. /\ stored' = loadMessages(ms)
        /\ left' = [q \in Request |-> IF stage[q] = "open" THEN messages ELSE left[q]]
    BY <2>2 DEF LeaveWith, Mount
  <2>4. \A q \in Request : Fits(left'[q], stage', said', mistaken')
    BY <2>3
  <2> QED
    BY <2>2, <2>3, <2>4, FitsLoad DEF StoredFit, Growth
<1>4. ASSUME Reload PROVE StoredFit
  <2>1. stored' = loadMessages(stored) /\ left' = [q \in Request |-> <<>>]
    BY <1>4 DEF Reload, Mount
  <2>2. Fits(<<>>, stage', said', mistaken')
    BY EmptySeq DEF Fits
  <2> QED
    BY <2>1, <2>2, FitsLoad DEF ConversationsOK, Tails, StoredFit, Growth
<1>5. ASSUME stopGeneration PROVE StoredFit
  BY <1>5 DEF stopGeneration, kept, StoredFit
<1>6. ASSUME handleEditOpenChange PROVE StoredFit
  BY <1>6 DEF handleEditOpenChange, kept, storage, StoredFit
<1>7. ASSUME handleClearMessages PROVE StoredFit
  BY <1>7 DEF handleClearMessages, kept, StoredFit
<1>8. ASSUME NEW r \in Request, handleSendMessage(r) PROVE StoredFit
  BY <1>8 DEF handleSendMessage, kept, StoredFit
<1>9. ASSUME NEW r \in Request, handleStreamUpdate(r) PROVE StoredFit
  BY <1>9 DEF handleStreamUpdate, kept, storage, StoredFit
<1>10. ASSUME NEW r \in Request, StreamEnds(r) PROVE StoredFit
  BY <1>10 DEF StreamEnds, kept, StoredFit
<1>11. ASSUME NEW r \in Request, StreamDropped(r) PROVE StoredFit
  BY <1>11 DEF StreamDropped, kept, storage, StoredFit
<1>12. ASSUME NEW r \in Request, PlainReturns(r) PROVE StoredFit
  BY <1>12 DEF PlainReturns, kept, StoredFit
<1>13. ASSUME NEW r \in Request, LateReport(r) PROVE StoredFit
  <2> DEFINE l == Last(left[r])
             w == waiting[r]
  <2>1. stage[r] = "left" /\ left' = [left EXCEPT ![r] = <<>>] /\ stage'[r] = "ended"
    BY <1>13 DEF LateReport, RequestsOK, RefsOK
  <2>2. /\ left[r] # <<>> /\ IsPending(l) /\ l.key = r /\ left[r] \in Conversation
        /\ stream[r] /\ r \notin mistaken => Progress(r, l.text, w, said[r])
        /\ ~stream[r] => w = <<>>
    BY <2>1 DEF LeftWhole, ConversationsOK
  <2>3. l \in Message /\ l = left[r][Len(left[r])] /\ Len(left[r]) \in 1..Len(left[r])
    BY <2>2, LastMessage
  <2>4. Fits(left[r], stage', said', mistaken') /\ FitsMessage(l, stage', said', mistaken')
    BY <2>3 DEF Fits
  <2>5. \A q \in Request : Fits(left'[q], stage', said', mistaken')
    <3>1. Fits(<<>>, stage', said', mistaken')
      BY EmptySeq DEF Fits
    <3> QED
      BY <2>1, <3>1 DEF ConversationsOK
  <2>6. ASSUME NEW m \in Message, FitsMessage(m, stage', said', mistaken'), LateSave(r, m)
        PROVE  Fits(stored', stage', said', mistaken')
    <3> DEFINE us == updateLastAssistantMessage(left[r], m)
    <3>1. us \in Conversation /\ Fits(us, stage', said', mistaken')
      BY <2>2, <2>4, <2>6, UpdateLast, FitsUpdate
    <3> HIDE DEF us
    <3>2. stored' = trimMessages(us)
      BY <2>6 DEF LateSave, us
    <3> QED
      BY <3>1, <3>2, FitsTrim
  <2>7. said[r] \in Text /\ said'[r] \in Text /\ w \in Text /\ l.text \in Text
    BY <2>3 DEF Growth, ConversationsOK, Message
  <2>8. ASSUME NEW m \in Message, m.key = r, r \notin mistaken' => m.text = said'[r], LateSave(r, m)
        PROVE  Fits(stored', stage', said', mistaken')
    <3>1. r \notin mistaken' => Follows(m.text, said'[r])
      BY <2>7, <2>8, PrefixFacts, FollowsPrefix
    <3>2. FitsMessage(m, stage', said', mistaken')
      BY <2>1, <2>8, <3>1 DEF FitsMessage
    <3> QED
      BY <2>6, <2>8, <3>2
  <2>9. CASE /\ w # <<>> /\ LateSave(r, applyStreamingChunk(l, w)) /\ UNCHANGED said
             /\ mistaken' = mistaken \union FlushMistakes(left[r], w)
    <3> DEFINE m == applyStreamingChunk(l, w)
    <3>1. m \in Message
      BY <2>3, <2>7, StreamedMessage
    <3>2. m.key = r /\ m.text = l.text \o getAppendableChunk(l.text, w)
      BY <2>2, <2>3 DEF applyStreamingChunk, IsPending, Message
    <3>3. ASSUME r \notin mistaken' PROVE m.text = said'[r]
      <4>1. FlushMistakes(left[r], w) = Mistaken(r, l.text, w)
        BY <2>2 DEF FlushMistakes, IsPending
      <4>2. Mistaken(r, l.text, w) = {} /\ r \notin mistaken
        BY <2>9, <3>3, <4>1 DEF Mistaken
      <4>3. Progress(r, l.text, w, said[r])
        BY <2>2, <2>9, <4>2
      <4>4. l.text \o getAppendableChunk(l.text, w) = said[r]
        <5> DEFINE x == l.text
                   s == said[r]
        <5>1. x \in Text /\ w \in Text /\ s \in Text /\ w # <<>> /\ Progress(r, x, w, s) /\ Mistaken(r, x, w) = {}
          BY <2>7, <2>9, <4>2, <4>3
        <5> HIDE DEF x, s, w
        <5>2. x \o getAppendableChunk(x, w) = s
          BY <5>1, FlushedText
        <5> QED
          BY <5>2 DEF x, s
      <4> HIDE DEF m, l, w
      <4> QED
        BY <2>9, <3>2, <4>4
    <3>4. LateSave(r, m)
      BY <2>9
    <3> HIDE DEF m
    <3> QED
      BY <2>5, <2>8, <3>1, <3>2, <3>3, <3>4 DEF StoredFit
  <2>10. ASSUME NEW d \in Delta, said' = [said EXCEPT ![r] = d], LateSave(r, WithAnswer(l, d))
         PROVE  StoredFit
    <3> DEFINE m == WithAnswer(l, d)
    <3>1. m \in Message /\ m.key = r /\ m.text = d
      BY <2>2, <2>3, ChangedMessages, ZenonT(20) DEF WithAnswer, Message
    <3>2. said'[r] = d
      BY <2>10 DEF SaidOK
    <3> HIDE DEF m
    <3>3. LateSave(r, m)
      BY <2>10 DEF m
    <3> QED
      BY <2>5, <2>8, <3>1, <3>2, <3>3 DEF StoredFit
  <2>11. CASE LateSave(r, CompleteIfPending(l)) \/ LateSave(r, WithError(l))
    <3>1. /\ CompleteIfPending(l) \in Message /\ FitsMessage(CompleteIfPending(l), stage', said', mistaken')
          /\ WithError(l) \in Message /\ FitsMessage(WithError(l), stage', said', mistaken')
      BY <2>3, <2>4, ChangedMessages, FitsChanged DEF Growth
    <3> QED
      BY <2>5, <2>6, <2>11, <3>1 DEF StoredFit
  <2>12. CASE UNCHANGED stored
    BY <2>5, <2>12 DEF StoredFit
  <2> QED
    BY <1>13, <2>9, <2>10, <2>11, <2>12 DEF LateReport
<1>14. ASSUME NEW r \in Request, NEW i \in DOMAIN messages, handleRegenerateMessage(i, r)
      PROVE  StoredFit
  BY <1>14 DEF handleRegenerateMessage, kept, StoredFit
<1>15. ASSUME NEW r \in Request, NEW i \in DOMAIN messages, SaveEditAndSubmit(i, r)
      PROVE  StoredFit
  BY <1>15 DEF SaveEditAndSubmit, kept, StoredFit
<1>16. ASSUME NEW i \in DOMAIN messages, handleEditMessage(i) PROVE StoredFit
  BY <1>16 DEF handleEditMessage, kept, storage, StoredFit
<1>17. ASSUME NEW i \in DOMAIN messages, SaveEdit(i) PROVE StoredFit
  BY <1>17 DEF SaveEdit, kept, StoredFit
<1>18. ASSUME NEW i \in DOMAIN messages, handleDeleteMessage(i) PROVE StoredFit
  BY <1>18 DEF handleDeleteMessage, kept, StoredFit
<1>19. ASSUME NEW r \in Request, LateChunk(r) PROVE StoredFit
  BY <1>19 DEF LateChunk, StoredFit
<1> QED
  BY <1>1, <1>2, <1>3, <1>4, <1>5, <1>6, <1>7, <1>8, <1>9, <1>10, <1>11, <1>12, <1>13, <1>14,
     <1>15, <1>16, <1>17, <1>18, <1>19 DEF Next

LEMMA MountStep ==
    ASSUME Next
    PROVE  UNCHANGED mounts \/ Leave \/ Reload
<1>1. ASSUME FlushTimer PROVE UNCHANGED mounts \/ Leave \/ Reload
  BY <1>1 DEF FlushTimer, requests, refs, kept, updateMessages, FlushAnd
<1>2. ASSUME SaveTimer PROVE UNCHANGED mounts \/ Leave \/ Reload
  BY <1>2 DEF SaveTimer, requests, refs, buffers
<1>3. ASSUME Leave PROVE UNCHANGED mounts \/ Leave \/ Reload
  BY <1>3
<1>4. ASSUME Reload PROVE UNCHANGED mounts \/ Leave \/ Reload
  BY <1>4
<1>5. ASSUME stopGeneration PROVE UNCHANGED mounts \/ Leave \/ Reload
  BY <1>5 DEF stopGeneration, kept, updateMessages, FlushAnd, Generating
<1>6. ASSUME handleEditOpenChange PROVE UNCHANGED mounts \/ Leave \/ Reload
  BY <1>6 DEF handleEditOpenChange, requests, refs, buffers, kept, storage
<1>7. ASSUME handleClearMessages PROVE UNCHANGED mounts \/ Leave \/ Reload
  BY <1>7 DEF handleClearMessages, requests, refs, buffers, kept, updateMessages, Generating
<1>8. ASSUME NEW r \in Request, handleSendMessage(r) PROVE UNCHANGED mounts \/ Leave \/ Reload
  BY <1>8 DEF handleSendMessage, buffers, kept, sendChat, updateMessages, Generating
<1>9. ASSUME NEW r \in Request, handleStreamUpdate(r) PROVE UNCHANGED mounts \/ Leave \/ Reload
  BY <1>9 DEF handleStreamUpdate, refs, kept, storage
<1>10. ASSUME NEW r \in Request, StreamEnds(r) PROVE UNCHANGED mounts \/ Leave \/ Reload
  BY <1>10 DEF StreamEnds, kept, updateMessages, FlushAnd
<1>11. ASSUME NEW r \in Request, StreamDropped(r) PROVE UNCHANGED mounts \/ Leave \/ Reload
  BY <1>11 DEF StreamDropped, refs, buffers, kept, storage
<1>12. ASSUME NEW r \in Request, PlainReturns(r) PROVE UNCHANGED mounts \/ Leave \/ Reload
  BY <1>12 DEF PlainReturns, buffers, kept, updateMessages, FlushAnd, Finally
<1>13. ASSUME NEW r \in Request, LateReport(r) PROVE UNCHANGED mounts \/ Leave \/ Reload
  BY <1>13 DEF LateReport, refs, buffers, LateSave
<1>14. ASSUME NEW r \in Request, NEW i \in DOMAIN messages, handleRegenerateMessage(i, r)
      PROVE  UNCHANGED mounts \/ Leave \/ Reload
  BY <1>14 DEF handleRegenerateMessage, buffers, kept, sendChat, updateMessages, Generating
<1>15. ASSUME NEW r \in Request, NEW i \in DOMAIN messages, SaveEditAndSubmit(i, r)
      PROVE  UNCHANGED mounts \/ Leave \/ Reload
  BY <1>15 DEF SaveEditAndSubmit, buffers, kept, sendChat, updateMessages, Generating
<1>16. ASSUME NEW i \in DOMAIN messages, handleEditMessage(i)
      PROVE  UNCHANGED mounts \/ Leave \/ Reload
  BY <1>16 DEF handleEditMessage, requests, refs, buffers, kept, storage, Generating
<1>17. ASSUME NEW i \in DOMAIN messages, SaveEdit(i) PROVE UNCHANGED mounts \/ Leave \/ Reload
  BY <1>17 DEF SaveEdit, requests, refs, buffers, kept, updateMessages
<1>18. ASSUME NEW i \in DOMAIN messages, handleDeleteMessage(i)
      PROVE  UNCHANGED mounts \/ Leave \/ Reload
  BY <1>18 DEF handleDeleteMessage, requests, refs, buffers, kept, updateMessages, Generating
<1>19. ASSUME NEW r \in Request, LateChunk(r) PROVE UNCHANGED mounts \/ Leave \/ Reload
  BY <1>19 DEF LateChunk
<1> QED
  BY <1>1, <1>2, <1>3, <1>4, <1>5, <1>6, <1>7, <1>8, <1>9, <1>10, <1>11, <1>12, <1>13, <1>14,
     <1>15, <1>16, <1>17, <1>18, <1>19 DEF Next

LEMMA AllFitStep ==
    ASSUME IInv, IInv', PlainUnsaid, Answers, ~overlapped, Next
    PROVE  AllFit'
<1>1. Growth
  BY GrowthStep DEF IInv, RequestsOK
<1>2. /\ Fits(messages, stage', said', mistaken') /\ Fits(stored, stage', said', mistaken')
      /\ \A q \in Request : Fits(left[q], stage', said', mistaken')
  BY <1>1, GrownFit DEF IInv, ConversationsOK, Answers, AllFit, Growth
<1>3. StoredFit
  BY <1>1, <1>2, StoredFitStep DEF IInv, Answers
<1>4. CASE UNCHANGED mounts
  <2>1. Elements
    BY <1>4, ElementsStep DEF IInv
  <2>2. ASSUME NEW j \in 1..Len(messages') PROVE FitsMessage(messages'[j], stage', said', mistaken')
    <3>1. messages \in Conversation /\ messages'[j] \in Message
      BY <2>2, ElementOfSeq DEF IInv, ConversationsOK, Conversation
    <3> QED
      BY <1>1, <2>1, <2>2, <3>1, ElementFits DEF Elements, Growth, Answers, AllFit
  <2> QED
    BY <1>3, <2>2 DEF AllFit, Fits, StoredFit
<1>5. CASE Leave \/ Reload
  <2>1. messages' = stored'
    BY <1>5 DEF Leave, LeaveWith, Reload, Mount
  <2> QED
    BY <1>3, <2>1 DEF AllFit, StoredFit
<1> QED
  BY <1>4, <1>5, MountStep

LEMMA AllWholeStep ==
    ASSUME IInv, IInv', PlainUnsaid, LeftLater, Answers, ~overlapped, Next
    PROVE  AllWhole'
<1> SUFFICES ASSUME mounts' = 0, NEW j \in 1..Len(messages')
             PROVE  WholeMessage(messages'[j], stage', said', mistaken')
  BY DEF AllWhole
<1>1. UNCHANGED mounts
  <2>1. CASE Leave \/ Reload
    <3>1. mounts' = mounts + 1 /\ mounts \in Nat
      BY <2>1, NatFacts DEF Leave, LeaveWith, Reload, Mount, IInv, RequestsOK, RefsOK
    <3> QED
      BY <3>1
  <2> QED
    BY <2>1, MountStep
<1>2. Elements
  BY <1>1, ElementsStep DEF IInv
<1>3. \A q \in Request : /\ stage[q] \notin {"none", "open"} => stage'[q] # "open"
                         /\ stage[q] # "open" => said'[q] = said[q]
  BY <1>1, GrowthStep DEF IInv, RequestsOK, LeftLater
<1>4. messages \in Conversation /\ messages'[j] \in Message
  BY ElementOfSeq DEF IInv, ConversationsOK, Conversation
<1>5. Fits(messages, stage, said, mistaken) /\ \A i \in 1..Len(messages) : WholeMessage(messages[i], stage, said, mistaken)
  BY <1>1 DEF Answers, AllFit, AllWhole
<1>6. Element(messages'[j], messages, stage', said', mistaken')
  BY <1>2 DEF Elements
<1>7. mistaken \subseteq mistaken'
  BY HistoryStep DEF History
<1> QED
  BY <1>3, <1>4, <1>5, <1>6, <1>7, ElementWhole

-----------------------------------------------------------------------------
(* The last message stays the answer under way *)

\* What UnderWay says of the answer m.
Answering(m, streamed, texts, pending, stages, str, lost) ==
    /\ IsPending(m) /\ m.key \in Request /\ stages[m.key] \in {"open", "ended"}
    /\ str <=> streamed[m.key]
    /\ streamed[m.key] /\ m.key \notin lost => Progress(m.key, m.text, pending, texts[m.key])
    /\ ~streamed[m.key] => m.text = <<>> /\ texts[m.key] = <<>>
    /\ \A r \in Request : stages[r] = "open" => r = m.key

LEMMA UnderWayIs ==
    UnderWay <=> (Generating =>
        messages # <<>> /\ Answering(Last(messages), stream, said, buffer, stage, isStreaming, mistaken))
BY DEF UnderWay, Answering

LEMMA LastOf ==
    ASSUME NEW ms \in Conversation, NEW n \in Nat, Len(ms) = n + 1
    PROVE  ms # <<>> /\ Last(ms) = ms[n + 1]
BY EmptySeq DEF Last

\* Each way to send a request ends the conversation with its answer, still empty.
LEMMA SentLast ==
    ASSUME ConversationsOK, ConversationsOK', Tails, Idle, ~Generating, NEW r \in Request,
           \/ handleSendMessage(r)
           \/ \E i \in DOMAIN messages : handleRegenerateMessage(i, r) \/ SaveEditAndSubmit(i, r)
    PROVE  messages' # <<>> /\ Last(messages') = Loading(r)
<1>1. NonePending(messages) /\ Len(messages) \in Nat
  BY LenProperties DEF Idle, ConversationsOK, Conversation
<1>2. CASE handleSendMessage(r)
  <2> DEFINE n == Len(messages) + 1
  <2>1. Len(messages') = n + 1 /\ messages'[n + 1] = Loading(r)
    <3>1. messages' = messages \o <<User(r), Loading(r)>>
      BY <1>2 DEF handleSendMessage, updateMessages
    <3>2. Len(messages') = Len(messages) + 2 /\ messages'[Len(messages) + 2] = Loading(r)
      BY <1>1, <3>1, ThenQuestion DEF ConversationsOK
    <3>3. n + 1 = Len(messages) + 2
      BY <1>1
    <3> QED
      BY <3>2, <3>3
  <2>2. n \in Nat
    BY <1>1
  <2> HIDE DEF n
  <2> QED
    BY <2>1, <2>2, LastOf DEF ConversationsOK
<1>3. ASSUME NEW i \in DOMAIN messages, handleRegenerateMessage(i, r)
      PROVE  messages' # <<>> /\ Last(messages') = Loading(r)
  <2> DEFINE n == IF messages[i].from = "user" THEN i ELSE i - 1
  <2>1. i \in 1..Len(messages)
    BY <1>1, LenProperties DEF ConversationsOK, Conversation
  <2>2. n \in 0..Len(messages) /\ n \in Nat
    <3>1. i \in 0..Len(messages) /\ i - 1 \in 0..Len(messages)
      BY <1>1, <2>1
    <3>2. n \in 0..Len(messages)
      BY <3>1, ZenonT(30)
    <3> QED
      BY <1>1, <3>2
  <2>3. messages' = SubSeq(messages, 1, n) \o <<Loading(r)>>
    BY <1>3 DEF handleRegenerateMessage, updateMessages
  <2> HIDE DEF n
  <2>4. \A j \in 1..n : ~IsPending(messages[j])
    BY <1>1, <2>2 DEF NonePending
  <2>5. Len(messages') = n + 1 /\ messages'[n + 1] = Loading(r)
    BY <2>2, <2>3, <2>4, ThenLoading DEF ConversationsOK
  <2> QED
    BY <2>2, <2>5, LastOf DEF ConversationsOK
<1>4. ASSUME NEW i \in DOMAIN messages, SaveEditAndSubmit(i, r)
      PROVE  messages' # <<>> /\ Last(messages') = Loading(r)
  <2> DEFINE es == [messages EXCEPT ![i].text = Edited]
  <2>1. /\ es \in Conversation /\ Len(es) = Len(messages)
        /\ \A j \in 1..Len(messages) : IsPending(es[j]) <=> IsPending(messages[j])
    BY EditFacts DEF ConversationsOK
  <2>2. i \in 0..Len(es) /\ i \in Nat
    BY <1>1, <2>1, LenProperties DEF ConversationsOK, Conversation
  <2>3. messages' = SubSeq(es, 1, i) \o <<Loading(r)>>
    BY <1>4 DEF SaveEditAndSubmit, updateMessages
  <2> HIDE DEF es
  <2>4. \A j \in 1..i : ~IsPending(es[j])
    BY <1>1, <2>1, <2>2 DEF NonePending
  <2>5. Len(messages') = i + 1 /\ messages'[i + 1] = Loading(r)
    BY <2>1, <2>2, <2>3, <2>4, ThenLoading
  <2> QED
    BY <2>2, <2>5, LastOf DEF ConversationsOK
<1> QED
  BY <1>2, <1>3, <1>4

LEMMA SentUnderWay ==
    ASSUME RequestsOK, RequestsOK', StreamRefs, Awaiting, Idle, PlainUnsaid,
           ~overlapped, ~Generating, NEW r \in Request, sendChat(r),
           messages' # <<>>, Last(messages') = Loading(r)
    PROVE  UnderWay'
<1>1. /\ stage[r] = "none" /\ stage'[r] = "open" /\ said'[r] = <<>>
  BY LoadingWritten DEF RequestsOK
<1>2. buffer' = <<>>
  BY DEF sendChat, buffers, Idle
<1>3. ~stream[r] /\ ~isStreaming /\ \A q \in Request : stage[q] # "open"
  BY <1>1 DEF StreamRefs, Generating, Awaiting
<1>4. isStreaming' <=> stream'[r]
  BY <1>3 DEF sendChat, RequestsOK, RefsOK
<1>5. \A q \in Request : stage'[q] = "open" => q = r
  BY <1>3 DEF sendChat, RequestsOK, RefsOK
<1>6. Progress(r, <<>>, <<>>, <<>>)
  <2>1. <<>> \o <<>> = <<>> /\ IsPrefix(<<>>, <<>>)
    BY EmptyText, PrefixFacts, ConcatEmptySeq DEF Text
  <2> QED
    BY <2>1 DEF Progress
<1>7. Loading(r).key = r /\ Loading(r).text = <<>> /\ IsPending(Loading(r))
  BY DEF Loading, IsPending
<1>8. Answering(Loading(r), stream', said', buffer', stage', isStreaming', mistaken')
  BY <1>1, <1>2, <1>4, <1>5, <1>6, <1>7 DEF Answering
<1> QED
  BY <1>8 DEF UnderWay, Answering

\* The return of the plain request under way ends the generation.
LEMMA PlainEnds ==
    ASSUME RequestsOK, Awaiting, UnderWay, ~overlapped, NEW r \in Request, PlainReturns(r),
           stage[r] = "open"
    PROVE  ~Generating'
<1>1. ~stream[r] /\ Generating /\ requestId = r
  BY DEF PlainReturns, Awaiting
<1>2. ~isStreaming
  BY <1>1 DEF UnderWay
<1> QED
  BY <1>1, <1>2 DEF PlainReturns, Finally, Generating

LEMMA UnderWayStep ==
    ASSUME IInv, IInv', PlainUnsaid, Answers, ~overlapped, ~overlapped', Next
    PROVE  UnderWay'
<1>  USE DEF IInv, Answers
<1>1. ASSUME FlushTimer PROVE UnderWay'
  <2> SUFFICES ASSUME Generating' PROVE UnderWay'
    BY DEF UnderWay
  <2> DEFINE k == Current.key
             m == Last(Flushed)
  <2>1. /\ FlushAnd(m) /\ Generating /\ buffer' = <<>>
        /\ UNCHANGED <<stage, stream, said, isStreaming>>
    BY <1>1 DEF FlushTimer, requests, Generating, FlushAnd
  <2>2. /\ m \in Message /\ IsPending(m) /\ m.key = k /\ k \in Request
        /\ k \notin mistaken' => m.text = said[k]
        /\ ~stream[k] => m.text = <<>>
    BY <2>1, FlushedAnswer, FlushedWhole
  <2> HIDE DEF m
  <2>3. messages' # <<>> /\ Last(messages') = m
    BY <2>1, <2>2, FlushWrites DEF IsPending
  <2>4. /\ stage[k] \in {"open", "ended"} /\ (isStreaming <=> stream[k])
        /\ ~stream[k] => said[k] = <<>>
        /\ \A r \in Request : stage[r] = "open" => r = k
    BY <2>1 DEF UnderWay, Current
  <2>5. said[k] \in Text
    BY <2>2 DEF SaidOK
  <2>6. said[k] \o <<>> = said[k] /\ IsPrefix(said[k], said[k])
    BY <2>5, PrefixFacts, ConcatEmptySeq DEF Text
  <2>7. k \notin mistaken' => Progress(k, m.text, <<>>, said[k])
    BY <2>2, <2>6 DEF Progress
  <2>8. Answering(m, stream', said', buffer', stage', isStreaming', mistaken')
    BY <2>1, <2>2, <2>4, <2>7 DEF Answering
  <2> QED
    BY <2>3, <2>8 DEF UnderWay, Answering
<1>2. ASSUME SaveTimer PROVE UnderWay'
  BY <1>2 DEF SaveTimer, requests, buffers, UnderWay, Generating
<1>3. ASSUME Leave PROVE UnderWay'
  BY <1>3 DEF Leave, LeaveWith, Mount, UnderWay, Generating
<1>4. ASSUME Reload PROVE UnderWay'
  BY <1>4 DEF Reload, Mount, UnderWay, Generating
<1>5. ASSUME stopGeneration PROVE UnderWay'
  BY <1>5 DEF stopGeneration, UnderWay, Generating
<1>6. ASSUME handleEditOpenChange PROVE UnderWay'
  BY <1>6 DEF handleEditOpenChange, requests, buffers, UnderWay, Generating
<1>7. ASSUME handleClearMessages PROVE UnderWay'
  BY <1>7 DEF handleClearMessages, UnderWay, Generating
<1>8. ASSUME NEW r \in Request, handleSendMessage(r) PROVE UnderWay'
  <2>1. ~Generating /\ sendChat(r)
    BY <1>8 DEF handleSendMessage
  <2>2. messages' # <<>> /\ Last(messages') = Loading(r)
    BY <1>8, <2>1, SentLast
  <2> QED
    BY <2>1, <2>2, SentUnderWay
<1>9. ASSUME NEW r \in Request, handleStreamUpdate(r) PROVE UnderWay'
  <2>1. /\ stage[r] = "open" /\ stream[r] /\ Generating /\ r = Current.key
        /\ messages # <<>> /\ Answering(Current, stream, said, buffer, stage, isStreaming, mistaken)
    BY <1>9, UnderWayIs DEF handleStreamUpdate, Awaiting, Current, Answering
  <2>2. Current.text \in Text /\ buffer \in Text
    BY <2>1, LastMessage DEF Current, ConversationsOK, Message
  <2>3. PICK d \in Delta : /\ said' = [said EXCEPT ![r] = said[r] \o d]
                          /\ buffer' = mergePendingStreamChunk(buffer, Chunk(r, d))
                          /\ mistaken' = mistaken \union Mistaken(r, buffer, Chunk(r, d))
    BY <1>9 DEF handleStreamUpdate, SaidOK
  <2>4. ASSUME r \notin mistaken' PROVE Progress(r, Current.text, buffer', said'[r])
    <3>1. Mistaken(r, buffer, Chunk(r, d)) = {} /\ r \notin mistaken
      BY <2>3, <2>4 DEF Mistaken
    <3>2. Progress(r, Current.text, buffer, said[r])
      BY <2>1, <3>1 DEF Answering
    <3>3. said'[r] = said[r] \o d
      BY <2>3 DEF SaidOK
    <3> QED
      BY <2>2, <2>3, <3>1, <3>2, <3>3, ReadBuffer
  <2>5. UNCHANGED <<messages, stage, stream, isStreaming>>
    BY <1>9 DEF handleStreamUpdate
  <2>6. Answering(Current, stream', said', buffer', stage', isStreaming', mistaken')
    BY <2>1, <2>4, <2>5 DEF Answering
  <2> QED
    BY <2>1, <2>5, <2>6 DEF UnderWay, Answering, Current
<1>10. ASSUME NEW r \in Request, StreamEnds(r) PROVE UnderWay'
  BY <1>10 DEF StreamEnds, UnderWay, Generating
<1>11. ASSUME NEW r \in Request, StreamDropped(r) PROVE UnderWay'
  <2>1. /\ UNCHANGED <<messages, stream, said, buffer, isStreaming, isRequesting, mistaken>>
        /\ \A q \in Request : stage'[q] = IF q = r THEN "ended" ELSE stage[q]
    BY <1>11 DEF StreamDropped, buffers, RequestsOK, RefsOK
  <2> QED
    BY <2>1 DEF UnderWay, Generating
<1>12. ASSUME NEW r \in Request, PlainReturns(r) PROVE UnderWay'
  <2>1. CASE stage[r] = "open"
    BY <1>12, <2>1, PlainEnds DEF UnderWay
  <2>2. CASE stage[r] = "aborted"
    <3>1. /\ UNCHANGED <<messages, stream, said, buffer, isStreaming, mistaken>>
          /\ isRequesting' = FALSE \/ isRequesting' = isRequesting
          /\ \A q \in Request : stage'[q] = IF q = r THEN "ended" ELSE stage[q]
      BY <1>12, <2>2 DEF PlainReturns, Finally, buffers, RequestsOK, RefsOK
    <3> QED
      BY <2>2, <3>1 DEF UnderWay, Generating
  <2> QED
    BY <1>12, <2>1, <2>2 DEF PlainReturns
<1>13. ASSUME NEW r \in Request, LateReport(r) PROVE UnderWay'
  <2>1. /\ UNCHANGED <<messages, stream, buffer, isStreaming, isRequesting>> /\ stage[r] = "left"
        /\ \A q \in Request : q # r => stage'[q] = stage[q] /\ said'[q] = said[q]
        /\ stage'[r] = "ended"
    BY <1>13 DEF LateReport, RequestsOK, RefsOK, SaidOK
  <2>2. mistaken \subseteq mistaken'
    BY HistoryStep DEF History
  <2> QED
    BY <2>1, <2>2 DEF UnderWay, Generating
<1>14. ASSUME NEW r \in Request, NEW i \in DOMAIN messages, handleRegenerateMessage(i, r)
      PROVE  UnderWay'
  <2>1. ~Generating /\ sendChat(r)
    BY <1>14 DEF handleRegenerateMessage
  <2>2. messages' # <<>> /\ Last(messages') = Loading(r)
    BY <1>14, <2>1, SentLast
  <2> QED
    BY <2>1, <2>2, SentUnderWay
<1>15. ASSUME NEW r \in Request, NEW i \in DOMAIN messages, SaveEditAndSubmit(i, r)
      PROVE  UnderWay'
  <2>1. ~Generating /\ sendChat(r)
    BY <1>15 DEF SaveEditAndSubmit, sendChat
  <2>2. messages' # <<>> /\ Last(messages') = Loading(r)
    BY <1>15, <2>1, SentLast
  <2> QED
    BY <2>1, <2>2, SentUnderWay
<1>16. ASSUME NEW i \in DOMAIN messages, handleEditMessage(i) PROVE UnderWay'
  BY <1>16 DEF handleEditMessage, requests, buffers, UnderWay, Generating
<1>17. ASSUME NEW i \in DOMAIN messages, SaveEdit(i) PROVE UnderWay'
  <2> SUFFICES ASSUME Generating' PROVE UnderWay'
    BY DEF UnderWay
  <2> DEFINE es == [messages EXCEPT ![i].text = Edited]
  <2>1. /\ es \in Conversation /\ Len(es) = Len(messages)
        /\ \A j \in 1..Len(messages) : j # i => es[j] = messages[j]
    BY EditFacts DEF ConversationsOK
  <2>2. /\ messages' = es /\ editing = <<messages[i].from, messages[i].key>>
        /\ UNCHANGED <<stage, stream, said, buffer, isStreaming, mistaken>> /\ Generating
    BY <1>17 DEF SaveEdit, updateMessages, requests, buffers, Generating
  <2> HIDE DEF es
  <2>3. messages # <<>> /\ IsPending(Current) /\ Current.key \in Request
    BY <2>2 DEF UnderWay, Current
  <2>4. Current = messages[Len(messages)] /\ Len(messages) \in 1..Len(messages) /\ Len(messages) \in Nat \ {0}
    BY <2>3, LastMessage DEF Current, ConversationsOK
  <2>5. i # Len(messages)
    <3> SUFFICES ASSUME i = Len(messages) PROVE FALSE
      OBVIOUS
    <3>1. editing = <<"assistant", Current.key>>
      BY <2>2, <2>3, <2>4 DEF IsPending
    <3> QED
      BY <2>2, <2>3, <3>1 DEF EditsOld, Current
  <2>6. messages' # <<>> /\ Last(messages') = Current
    BY <2>1, <2>2, <2>4, <2>5, EmptySeq DEF Last
  <2> QED
    BY <2>2, <2>3, <2>6 DEF UnderWay, Current
<1>18. ASSUME NEW i \in DOMAIN messages, handleDeleteMessage(i) PROVE UnderWay'
  BY <1>18 DEF handleDeleteMessage, UnderWay, Generating
<1>19. ASSUME NEW r \in Request, LateChunk(r) PROVE UnderWay'
  <2>1. /\ UNCHANGED <<messages, stage, stream, buffer, isStreaming, isRequesting>> /\ stage[r] = "left"
        /\ \A q \in Request : q # r => said'[q] = said[q]
    BY <1>19 DEF LateChunk, SaidOK
  <2>2. mistaken \subseteq mistaken'
    BY HistoryStep DEF History
  <2> QED
    BY <2>1, <2>2 DEF UnderWay, Generating
<1> QED
  BY <1>1, <1>2, <1>3, <1>4, <1>5, <1>6, <1>7, <1>8, <1>9, <1>10, <1>11, <1>12, <1>13, <1>14,
     <1>15, <1>16, <1>17, <1>18, <1>19 DEF Next

\* What a page that was left waits for is its own.
LeftKept == \A q \in Request : stage'[q] = "left" =>
    /\ stage[q] = "left" /\ left'[q] = left[q] /\ waiting'[q] = waiting[q]
    /\ stream'[q] = stream[q] /\ said'[q] = said[q]

LEMMA KeptLeft ==
    ASSUME LeftWhole, LeftKept, mistaken \subseteq mistaken'
    PROVE  LeftWhole'
BY DEF LeftWhole, LeftKept

LEMMA LeftWholeStep ==
    ASSUME IInv, Answers, ~overlapped, Next
    PROVE  LeftWhole'
<1>  USE DEF IInv, Answers
<1>0. mistaken \subseteq mistaken'
  BY HistoryStep DEF History
<1>1. ASSUME FlushTimer PROVE LeftWhole'
  BY <1>0, <1>1, KeptLeft DEF FlushTimer, requests, kept, RequestsOK, RefsOK, SaidOK, LeftKept
<1>2. ASSUME SaveTimer PROVE LeftWhole'
  BY <1>0, <1>2, KeptLeft DEF SaveTimer, requests, RequestsOK, RefsOK, SaidOK, LeftKept
<1>3. ASSUME Leave PROVE LeftWhole'
  <2> SUFFICES ASSUME NEW q \in Request, stage'[q] = "left"
               PROVE  /\ left'[q] # <<>>
                      /\ LET m == Last(left'[q]) IN
                         /\ IsPending(m) /\ m.key = q
                         /\ stream'[q] /\ q \notin mistaken' => Progress(q, m.text, waiting'[q], said'[q])
                         /\ ~stream'[q] => waiting'[q] = <<>>
    BY DEF LeftWhole
  <2>1. /\ stage[q] \in {"open", "left"} /\ UNCHANGED <<stream, said, mistaken>>
        /\ left'[q] = IF stage[q] = "open" THEN messages ELSE left[q]
        /\ waiting'[q] = IF stage[q] = "open" THEN buffer ELSE waiting[q]
    BY <1>3 DEF Leave, LeaveWith, Mount
  <2>2. CASE stage[q] = "open"
    <3>1. Generating
      BY <2>2 DEF Awaiting
    <3>2. /\ messages # <<>> /\ IsPending(Last(messages)) /\ q = Last(messages).key
          /\ isStreaming <=> stream[q]
          /\ stream[q] /\ q \notin mistaken => Progress(q, Last(messages).text, buffer, said[q])
      BY <2>2, <3>1 DEF UnderWay
    <3>3. ~stream[q] => buffer = <<>>
      BY <3>2 DEF StreamRefs
    <3> QED
      BY <2>1, <2>2, <3>2, <3>3
  <2>3. CASE stage[q] = "left"
    BY <2>1, <2>3 DEF LeftWhole
  <2> QED
    BY <2>1, <2>2, <2>3
<1>4. ASSUME Reload PROVE LeftWhole'
  BY <1>4 DEF Reload, LeftWhole
<1>5. ASSUME stopGeneration PROVE LeftWhole'
  BY <1>0, <1>5, KeptLeft DEF stopGeneration, kept, RequestsOK, RefsOK, SaidOK, LeftKept
<1>6. ASSUME handleEditOpenChange PROVE LeftWhole'
  BY <1>0, <1>6, KeptLeft DEF handleEditOpenChange, requests, kept, storage, RequestsOK, RefsOK, SaidOK, LeftKept
<1>7. ASSUME handleClearMessages PROVE LeftWhole'
  BY <1>0, <1>7, KeptLeft DEF handleClearMessages, requests, kept, RequestsOK, RefsOK, SaidOK, LeftKept
<1>8. ASSUME NEW r \in Request, handleSendMessage(r) PROVE LeftWhole'
  BY <1>0, <1>8, NatFacts, KeptLeft DEF handleSendMessage, sendChat, kept, RequestsOK, RefsOK, Request,
     SaidOK, LeftKept
<1>9. ASSUME NEW r \in Request, handleStreamUpdate(r) PROVE LeftWhole'
  BY <1>0, <1>9, KeptLeft DEF handleStreamUpdate, kept, storage, RequestsOK, RefsOK, SaidOK, LeftKept
<1>10. ASSUME NEW r \in Request, StreamEnds(r) PROVE LeftWhole'
  BY <1>0, <1>10, KeptLeft DEF StreamEnds, kept, RequestsOK, RefsOK, SaidOK, LeftKept
<1>11. ASSUME NEW r \in Request, StreamDropped(r) PROVE LeftWhole'
  BY <1>0, <1>11, KeptLeft DEF StreamDropped, kept, storage, RequestsOK, RefsOK, SaidOK, LeftKept
<1>12. ASSUME NEW r \in Request, PlainReturns(r) PROVE LeftWhole'
  BY <1>0, <1>12, KeptLeft DEF PlainReturns, kept, RequestsOK, RefsOK, SaidOK, LeftKept
<1>13. ASSUME NEW r \in Request, LateReport(r) PROVE LeftWhole'
  BY <1>0, <1>13, KeptLeft DEF LateReport, RequestsOK, RefsOK, SaidOK, LeftKept
<1>14. ASSUME NEW r \in Request, NEW i \in DOMAIN messages, handleRegenerateMessage(i, r)
      PROVE  LeftWhole'
  BY <1>0, <1>14, NatFacts, KeptLeft DEF handleRegenerateMessage, sendChat, kept, RequestsOK, RefsOK, Request,
     SaidOK, LeftKept
<1>15. ASSUME NEW r \in Request, NEW i \in DOMAIN messages, SaveEditAndSubmit(i, r)
      PROVE  LeftWhole'
  BY <1>0, <1>15, NatFacts, KeptLeft DEF SaveEditAndSubmit, sendChat, kept, RequestsOK, RefsOK, Request,
     SaidOK, LeftKept
<1>16. ASSUME NEW i \in DOMAIN messages, handleEditMessage(i) PROVE LeftWhole'
  BY <1>0, <1>16, KeptLeft DEF handleEditMessage, requests, kept, storage, RequestsOK, RefsOK, SaidOK, LeftKept
<1>17. ASSUME NEW i \in DOMAIN messages, SaveEdit(i) PROVE LeftWhole'
  BY <1>0, <1>17, KeptLeft DEF SaveEdit, requests, kept, RequestsOK, RefsOK, SaidOK, LeftKept
<1>18. ASSUME NEW i \in DOMAIN messages, handleDeleteMessage(i) PROVE LeftWhole'
  BY <1>0, <1>18, KeptLeft DEF handleDeleteMessage, requests, kept, RequestsOK, RefsOK, SaidOK, LeftKept
<1>19. ASSUME NEW r \in Request, LateChunk(r) PROVE LeftWhole'
  <2>1. PICK d \in Delta : /\ said' = [said EXCEPT ![r] = said[r] \o d]
                          /\ waiting' = [waiting EXCEPT ![r] = mergePendingStreamChunk(waiting[r], Chunk(r, d))]
                          /\ mistaken' = mistaken \union Mistaken(r, waiting[r], Chunk(r, d))
    BY <1>19 DEF LateChunk, SaidOK, ConversationsOK
  <2>2. UNCHANGED <<stage, stream, left>> /\ stage[r] = "left" /\ stream[r]
    BY <1>19 DEF LateChunk
  <2>3. said'[r] = said[r] \o d /\ waiting'[r] = mergePendingStreamChunk(waiting[r], Chunk(r, d))
    BY <2>1 DEF SaidOK, ConversationsOK
  <2>4. /\ left[r] # <<>> /\ IsPending(Last(left[r])) /\ Last(left[r]).key = r /\ left[r] \in Conversation
        /\ r \notin mistaken => Progress(r, Last(left[r]).text, waiting[r], said[r])
    BY <2>2 DEF LeftWhole, ConversationsOK
  <2>5. Last(left[r]).text \in Text /\ waiting[r] \in Text
    BY <2>4, LastMessage DEF ConversationsOK, Message
  <2>6. ASSUME r \notin mistaken' PROVE Progress(r, Last(left[r]).text, waiting'[r], said'[r])
    <3>1. Mistaken(r, waiting[r], Chunk(r, d)) = {} /\ r \notin mistaken
      BY <2>1, <2>6 DEF Mistaken
    <3> QED
      BY <2>3, <2>4, <2>5, <3>1, ReadBuffer
  <2>7. \A q \in Request : q # r => said'[q] = said[q] /\ waiting'[q] = waiting[q]
    BY <2>1 DEF SaidOK, ConversationsOK
  <2> QED
    BY <1>0, <2>2, <2>4, <2>6, <2>7 DEF LeftWhole
<1> QED
  BY <1>1, <1>2, <1>3, <1>4, <1>5, <1>6, <1>7, <1>8, <1>9, <1>10, <1>11, <1>12, <1>13, <1>14,
     <1>15, <1>16, <1>17, <1>18, <1>19 DEF Next

LEMMA EditsOldStep ==
    ASSUME IInv, IInv', PlainUnsaid, Answers, ~overlapped, ~overlapped', Next
    PROVE  EditsOld'
<1>  USE DEF IInv, Answers
<1>1. ASSUME FlushTimer PROVE EditsOld'
  <2>1. /\ FlushAnd(Last(Flushed)) /\ UNCHANGED <<stage, editing>> /\ (Generating' <=> Generating)
    BY <1>1 DEF FlushTimer, requests, Generating
  <2>2. CASE Generating
    <3>1. Last(Flushed) \in Message /\ IsPending(Last(Flushed)) /\ Last(Flushed).key = Current.key
      BY <2>2, FlushedAnswer
    <3>2. Last(messages') = Last(Flushed)
      BY <2>1, <2>2, <3>1, FlushWrites DEF IsPending
    <3> QED
      BY <2>1, <2>2, <3>1, <3>2 DEF EditsOld, Current
  <2>3. CASE ~Generating
    BY <2>1, <2>3 DEF EditsOld
  <2> QED
    BY <2>2, <2>3
<1>2. ASSUME SaveTimer PROVE EditsOld'
  BY <1>2 DEF SaveTimer, requests, RequestsOK, RefsOK, EditsOld, Generating
<1>3. ASSUME Leave PROVE EditsOld'
  BY <1>3 DEF Leave, Mount, LeaveWith, RequestsOK, RefsOK, EditsOld, Generating
<1>4. ASSUME Reload PROVE EditsOld'
  BY <1>4 DEF Reload, Mount, RequestsOK, RefsOK, EditsOld, Generating
<1>5. ASSUME stopGeneration PROVE EditsOld'
  BY <1>5 DEF stopGeneration, kept, Generating, RequestsOK, RefsOK, EditsOld
<1>6. ASSUME handleEditOpenChange PROVE EditsOld'
  BY <1>6 DEF handleEditOpenChange, requests, kept, storage, RequestsOK, RefsOK, EditsOld,
     Generating
<1>7. ASSUME handleClearMessages PROVE EditsOld'
  BY <1>7 DEF handleClearMessages, requests, kept, Generating, RequestsOK, RefsOK, EditsOld
<1>8. ASSUME NEW r \in Request, handleSendMessage(r) PROVE EditsOld'
  <2>1. ~Generating /\ sendChat(r) /\ editing' \in {editing, <<>>}
    BY <1>8 DEF handleSendMessage, sendChat
  <2>2. Last(messages') = Loading(r)
    BY <1>8, <2>1, SentLast
  <2>3. stage[r] = "none" /\ \A q \in Request : stage'[q] = "none" => stage[q] = "none"
    BY <2>1, LoadingWritten, SaidSteps DEF RequestsOK, SaidMore
  <2>4. \A q \in Request : <<>> # <<"assistant", q>>
    OBVIOUS
  <2>5. Loading(r).key = r
    BY DEF Loading
  <2> QED
    BY <2>1, <2>2, <2>3, <2>4, <2>5 DEF EditsOld
<1>9. ASSUME NEW r \in Request, handleStreamUpdate(r) PROVE EditsOld'
  BY <1>9 DEF handleStreamUpdate, kept, storage, RequestsOK, RefsOK, EditsOld,
     Generating
<1>10. ASSUME NEW r \in Request, StreamEnds(r) PROVE EditsOld'
  BY <1>10 DEF StreamEnds, kept, RequestsOK, RefsOK, EditsOld, Generating
<1>11. ASSUME NEW r \in Request, StreamDropped(r) PROVE EditsOld'
  BY <1>11 DEF StreamDropped, kept, storage, RequestsOK, RefsOK, EditsOld, Generating
<1>12. ASSUME NEW r \in Request, PlainReturns(r) PROVE EditsOld'
  <2>1. UNCHANGED editing /\ \A q \in Request : stage'[q] = "none" => stage[q] = "none"
    BY <1>12 DEF PlainReturns, RequestsOK, RefsOK
  <2>2. CASE stage[r] = "open"
    BY <1>12, <2>1, <2>2, PlainEnds DEF EditsOld
  <2>3. CASE stage[r] = "aborted"
    BY <1>12, <2>1, <2>3 DEF PlainReturns, Finally, Generating, EditsOld
  <2> QED
    BY <1>12, <2>2, <2>3 DEF PlainReturns
<1>13. ASSUME NEW r \in Request, LateReport(r) PROVE EditsOld'
  BY <1>13 DEF LateReport, RequestsOK, RefsOK, EditsOld, Generating
<1>14. ASSUME NEW r \in Request, NEW i \in DOMAIN messages, handleRegenerateMessage(i, r)
      PROVE  EditsOld'
  <2>1. ~Generating /\ sendChat(r) /\ editing' \in {editing, <<>>}
    BY <1>14 DEF handleRegenerateMessage, sendChat
  <2>2. Last(messages') = Loading(r)
    BY <1>14, <2>1, SentLast
  <2>3. stage[r] = "none" /\ \A q \in Request : stage'[q] = "none" => stage[q] = "none"
    BY <2>1, LoadingWritten, SaidSteps DEF RequestsOK, SaidMore
  <2>4. \A q \in Request : <<>> # <<"assistant", q>>
    OBVIOUS
  <2>5. Loading(r).key = r
    BY DEF Loading
  <2> QED
    BY <2>1, <2>2, <2>3, <2>4, <2>5 DEF EditsOld
<1>15. ASSUME NEW r \in Request, NEW i \in DOMAIN messages, SaveEditAndSubmit(i, r)
      PROVE  EditsOld'
  <2>1. ~Generating /\ sendChat(r) /\ editing' \in {editing, <<>>}
    BY <1>15 DEF SaveEditAndSubmit, sendChat
  <2>2. Last(messages') = Loading(r)
    BY <1>15, <2>1, SentLast
  <2>3. stage[r] = "none" /\ \A q \in Request : stage'[q] = "none" => stage[q] = "none"
    BY <2>1, LoadingWritten, SaidSteps DEF RequestsOK, SaidMore
  <2>4. \A q \in Request : <<>> # <<"assistant", q>>
    OBVIOUS
  <2>5. Loading(r).key = r
    BY DEF Loading
  <2> QED
    BY <2>1, <2>2, <2>3, <2>4, <2>5 DEF EditsOld
<1>16. ASSUME NEW i \in DOMAIN messages, handleEditMessage(i) PROVE EditsOld'
  <2>1. ~Generating' /\ UNCHANGED stage /\ editing' = <<messages[i].from, messages[i].key>>
    BY <1>16 DEF handleEditMessage, requests, Generating
  <2>2. FitsMessage(messages[i], stage, said, mistaken)
    BY LenProperties DEF ConversationsOK, Conversation, AllFit, Fits
  <2>3. ASSUME NEW q \in Request, stage[q] = "none", editing' = <<"assistant", q>> PROVE FALSE
    <3>1. messages[i].from = "assistant" /\ messages[i].key = q
      BY <2>1, <2>3
    <3> QED
      BY <2>2, <2>3, <3>1 DEF FitsMessage
  <2> QED
    BY <2>1, <2>3 DEF EditsOld
<1>17. ASSUME NEW i \in DOMAIN messages, SaveEdit(i) PROVE EditsOld'
  BY <1>17 DEF SaveEdit, requests, kept, RequestsOK, RefsOK, EditsOld, Generating
<1>18. ASSUME NEW i \in DOMAIN messages, handleDeleteMessage(i) PROVE EditsOld'
  BY <1>18 DEF handleDeleteMessage, requests, kept, Generating, RequestsOK, RefsOK, EditsOld
<1>19. ASSUME NEW r \in Request, LateChunk(r) PROVE EditsOld'
  BY <1>19 DEF LateChunk, refs, RequestsOK, RefsOK, EditsOld, Generating
<1> QED
  BY <1>1, <1>2, <1>3, <1>4, <1>5, <1>6, <1>7, <1>8, <1>9, <1>10, <1>11, <1>12, <1>13, <1>14,
     <1>15, <1>16, <1>17, <1>18, <1>19 DEF Next

-----------------------------------------------------------------------------
(* The theorem *)

LEMMA InitTexts ==
    ASSUME Init
    PROVE  Texts
<1>1. Len(Earlier) = 1 /\ Earlier[1] = User(0) /\ Len(<<>>) = 0
  BY EmptySeq DEF Earlier
<1>2. User(0).from = "user"
  BY DEF User
<1>3. Fits(Earlier, stage, said, mistaken) /\ Fits(<<>>, stage, said, mistaken)
  BY <1>1, <1>2 DEF Fits, FitsMessage
<1>4. AllFit
  BY <1>3 DEF Init, AllFit
<1>5. AllWhole
  BY <1>1, <1>2 DEF Init, AllWhole, WholeMessage
<1>6. PlainUnsaid /\ LeftLater /\ LeftWhole /\ UnderWay
  BY DEF Init, PlainUnsaid, LeftLater, LeftWhole, UnderWay, Generating
<1>7. EditsOld
  BY DEF Init, EditsOld
<1> QED
  BY <1>4, <1>5, <1>6, <1>7 DEF Texts, Answers

LEMMA NextTexts ==
    ASSUME IInv, IInv', Texts, [Next]_vars
    PROVE  Texts'
<1>1. CASE Next
  <2>1. PlainUnsaid' /\ LeftLater'
    BY <1>1, PlainUnsaidStep, LeftLaterStep DEF Texts, IInv, RequestsOK
  <2>2. ASSUME ~overlapped' PROVE Answers'
    <3>1. ~overlapped /\ Answers /\ PlainUnsaid /\ LeftLater
      BY <1>1, <2>2, HistoryStep DEF Texts, History
    <3>2. AllFit' /\ AllWhole'
      BY <1>1, <3>1, AllFitStep, AllWholeStep
    <3>3. UnderWay' /\ EditsOld'
      BY <1>1, <2>2, <3>1, UnderWayStep, EditsOldStep
    <3>4. LeftWhole'
      BY <1>1, <3>1, LeftWholeStep
    <3> QED
      BY <3>2, <3>3, <3>4 DEF Answers
  <2> QED
    BY <2>1, <2>2 DEF Texts
<1>2. CASE UNCHANGED vars
  <2>1. UNCHANGED <<messages, stage, stream, said, mistaken, buffer, editing, stored, left, waiting, mounts,
                    overlapped, isStreaming, isRequesting>>
    BY <1>2 DEF vars, requests, buffers, storage, kept
  <2>2. AllFit' = AllFit /\ AllWhole' = AllWhole
    BY <2>1 DEF AllFit, AllWhole
  <2>3. UnderWay' = UnderWay /\ LeftWhole' = LeftWhole /\ EditsOld' = EditsOld
    BY <2>1 DEF UnderWay, LeftWhole, EditsOld, Generating
  <2>4. PlainUnsaid' = PlainUnsaid /\ LeftLater' = LeftLater
    BY <2>1 DEF PlainUnsaid, LeftLater
  <2> QED
    BY <2>1, <2>2, <2>3, <2>4 DEF Texts, Answers
<1> QED
  BY <1>1, <1>2

LEMMA TextsWhole ==
    ASSUME IInv, Texts
    PROVE  WholeAnswer
<1> SUFFICES ASSUME ~overlapped, NEW i \in DOMAIN messages, messages[i].from = "assistant",
                    messages[i].status = "complete", messages[i].text # Edited,
                    messages[i].key \notin mistaken
             PROVE  /\ Follows(messages[i].text, said[messages[i].key])
                    /\ mounts = 0 => messages[i].text = said[messages[i].key]
  BY DEF WholeAnswer, Follows
<1> DEFINE m == messages[i]
<1>1. i \in 1..Len(messages)
  BY LenProperties DEF IInv, ConversationsOK, Conversation
<1>2. FitsMessage(m, stage, said, mistaken) /\ (mounts = 0 => WholeMessage(m, stage, said, mistaken))
  BY <1>1 DEF Texts, Answers, AllFit, Fits, AllWhole
<1> QED
  BY <1>2 DEF FitsMessage, WholeMessage, IsPending

\* However chunks, timers, stops, edits, reloads and returns of left pages interleave, an
\* answer is taken from what the upstream said to its own request: all of it on the first
\* visit, the beginning after a reload, or a part if sections repeat.  For every text and
\* every way to cut it into chunks, except where something new was taken for the text so far,
\* and as long as no request was sent while another was under way.
THEOREM WholeTheorem == Spec => []WholeAnswer
<1>1. Init => Texts
  BY InitTexts
<1>2. IInv /\ IInv' /\ Texts /\ [Next]_vars => Texts'
  BY NextTexts
<1>3. IInv /\ Texts => WholeAnswer
  BY TextsWhole
<1> QED
  BY <1>1, <1>2, <1>3, SpecIInv, PTL DEF Spec

=============================================================================
