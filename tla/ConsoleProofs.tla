---------------------------- MODULE ConsoleProofs ----------------------------
(***************************************************************************)
(* Theorems about the browser console.  For any number of events, faults   *)
(* and calls of connect(), the frames of the event stream are consumed in  *)
(* order, though loops of several generations may exist at a time.  For    *)
(* any cards, edits and requests in flight, drafts are what the cards show.*)
(***************************************************************************)
EXTENDS Console, ConsoleReview, TLAPS

LoopShape == [of : Nat, at : {"fetch", "read", "delay"}, sent : Tokens \cup {NoToken},
              stream : [after : Nat, read : Nat]]

Shapes ==
    /\ log \in Seq(Kinds)
    /\ token \in Tokens \cup {NoToken}
    /\ generation \in Nat
    /\ lastEventID \in Nat
    /\ loops \subseteq LoopShape

\* A loop of an older generation only sleeps, there is one of the present
\* generation at most, and what it has read is what the page has consumed.
OneReads ==
    /\ \A l \in loops : l.of <= generation
    /\ \A l \in loops : l.at # "delay" => l.of = generation /\ l.stream.read = lastEventID
    /\ \A k, l \in loops : k.of = generation /\ l.of = generation => k = l

StreamInv == Shapes /\ OneReads

LEMMA ConsoleInitInv == ConsoleInit => StreamInv
  BY DEF ConsoleInit, FeedInit, SignedOut, Restored, StreamUnopened, StreamInv, Shapes,
         OneReads

\* A request that is sent resumes after what has been consumed.
LEMMA FetchingShape ==
    ASSUME NEW g \in Nat, lastEventID \in Nat, token \in Tokens \cup {NoToken}
    PROVE  /\ Fetching(g) \in LoopShape
           /\ Fetching(g).of = g /\ Fetching(g).stream.read = lastEventID
  BY DEF Fetching, LoopShape, StreamAfter

\* The generation grows, and only loops that sleep are left.
LEMMA AbortKeeps ==
    ASSUME StreamInv, generation' \in Nat, generation' > generation,
           loops' \subseteq Aborted(loops),
           UNCHANGED <<log, lastEventID>>, token' \in Tokens \cup {NoToken}
    PROVE  StreamInv'
  <1>1. \A l \in loops' : l \in loops /\ l.at = "delay"
    BY DEF Aborted
  <1>2. \A l \in loops' : l.of \in Nat /\ l.of < generation'
    BY <1>1 DEF StreamInv, Shapes, OneReads, LoopShape
  <1>3. Shapes'
    BY <1>1 DEF StreamInv, Shapes
  <1>4. OneReads'
    BY <1>1, <1>2 DEF OneReads, StreamInv, Shapes
  <1> QED BY <1>3, <1>4 DEF StreamInv

\* A new loop takes the place of the others.
LEMMA StartKeeps ==
    ASSUME StreamInv, StartEventStream, UNCHANGED <<log, lastEventID, token>>
    PROVE  StreamInv'
  <1> DEFINE new == Fetching(generation')
  <1>1. generation' = generation + 1 /\ generation' \in Nat
    BY DEF StartEventStream, StreamInv, Shapes
  <1>2. new \in LoopShape /\ new.of = generation' /\ new.stream.read = lastEventID
    BY <1>1, FetchingShape DEF StreamInv, Shapes
  <1>3. \A l \in loops' : l = new \/ (l \in loops /\ l.at = "delay" /\ l.of < generation')
    BY <1>1 DEF StartEventStream, Aborted, StreamInv, Shapes, OneReads, LoopShape
  <1> HIDE DEF new
  <1>4. Shapes'
    BY <1>1, <1>2, <1>3 DEF StreamInv, Shapes
  <1>5. OneReads'
    BY <1>1, <1>2, <1>3 DEF OneReads, StreamInv, Shapes, LoopShape
  <1> QED BY <1>4, <1>5 DEF StreamInv

\* One loop of the present generation is replaced by another that has read as
\* much as has been consumed.
LEMMA ReplaceKeeps ==
    ASSUME StreamInv, NEW l \in loops, NEW k \in LoopShape,
           k.of = l.of, loops' = (loops \ {l}) \cup {k},
           k.at # "delay" => l.of = generation /\ k.stream.read = lastEventID',
           lastEventID' = lastEventID \/ l.at # "delay", lastEventID' \in Nat,
           UNCHANGED <<generation, token>>, log' \in Seq(Kinds)
    PROVE  StreamInv'
  <1>1. Shapes'
    BY DEF StreamInv, Shapes
  <1>2. \A m \in loops' : m = k \/ (m \in loops /\ m # l)
    OBVIOUS
  <1>3. \A m \in loops' : m.of <= generation
    BY <1>2 DEF StreamInv, OneReads
  <1>4. \A m, n \in loops' : m.of = generation /\ n.of = generation => m = n
    BY <1>2 DEF StreamInv, OneReads
  <1>5. \A m \in loops' : m.at # "delay" => m.of = generation /\ m.stream.read = lastEventID'
    BY <1>2 DEF StreamInv, OneReads
  <1> QED BY <1>1, <1>3, <1>4, <1>5 DEF StreamInv, OneReads

\* A loop ends.
LEMMA EndKeeps ==
    ASSUME StreamInv, NEW l \in loops, loops' = loops \ {l},
           UNCHANGED <<generation, lastEventID, token>>, log' \in Seq(Kinds)
    PROVE  StreamInv'
  BY DEF StreamInv, Shapes, OneReads

-----------------------------------------------------------------------------
(* The steps.                                                              *)

\* Whoever ends a session bumps the generation and aborts the reader.
LEMMA DisconnectKeeps ==
    ASSUME StreamInv, Disconnect, UNCHANGED <<log, lastEventID>>
    PROVE  StreamInv'
  BY AbortKeeps DEF Disconnect, StreamInv, Shapes

\* The loop goes round, or is over.
LEMMA RoundKeeps ==
    ASSUME StreamInv, NEW l \in loops, GoesRound(l),
           UNCHANGED <<log, generation, lastEventID, token>>
    PROVE  StreamInv'
  <1>1. l \in LoopShape /\ l.of \in Nat
    BY DEF StreamInv, Shapes, LoopShape
  <1>2. CASE Continues(l.of)
    <2>1. /\ Fetching(l.of) \in LoopShape
          /\ Fetching(l.of).of = l.of /\ Fetching(l.of).stream.read = lastEventID
      BY <1>1, FetchingShape DEF StreamInv, Shapes
    <2>2. loops' = (loops \ {l}) \cup {Fetching(l.of)} /\ l.of = generation
      BY <1>2 DEF GoesRound, Continues
    <2> QED BY <2>1, <2>2, ReplaceKeeps DEF StreamInv, Shapes
  <1>3. CASE ~Continues(l.of)
    BY <1>3, EndKeeps DEF GoesRound, StreamInv, Shapes
  <1> QED BY <1>2, <1>3

LEMMA SessionKeeps ==
    ASSUME StreamInv,
           \/ \E t \in Tokens : SubmitToken(t)
           \/ ChangeToken \/ Poll
           \/ \E c \in connecting : StatusAnswered(c) \/ ListsAnswered(c) \/ ConnectFails(c)
           \/ \E t \in polls : PollAnswered(t)
    PROVE  StreamInv'
  <1>1. ASSUME NEW t \in Tokens, SubmitToken(t) PROVE StreamInv'
    BY <1>1 DEF SubmitToken, feedVars, loopVars, StreamInv, Shapes, OneReads
  <1>2. CASE ChangeToken
    BY <1>2, DisconnectKeeps DEF ChangeToken, feedVars
  <1>3. CASE Poll
    BY <1>3 DEF Poll, feedVars, loopVars, StreamInv, Shapes, OneReads
  <1>4. ASSUME NEW c \in connecting, StatusAnswered(c) PROVE StreamInv'
    <2>1. CASE Refused(c.sent)
      BY <1>4, <2>1, DisconnectKeeps DEF StatusAnswered, Unauthorized, feedVars
    <2>2. CASE ~Refused(c.sent)
      BY <1>4, <2>2 DEF StatusAnswered, feedVars, StreamInv, Shapes, OneReads
    <2> QED BY <2>1, <2>2
  <1>5. ASSUME NEW c \in connecting, ListsAnswered(c) PROVE StreamInv'
    <2>1. CASE Refused(c.sent)
      <3>1. generation' \in Nat /\ generation' > generation
        BY <1>5, <2>1 DEF ListsAnswered, StreamInv, Shapes
      <3> QED BY <1>5, <2>1, <3>1, AbortKeeps DEF ListsAnswered, feedVars
    <2>2. CASE ~Refused(c.sent)
      BY <1>5, <2>2, StartKeeps DEF ListsAnswered, feedVars
    <2> QED BY <2>1, <2>2
  <1>6. ASSUME NEW c \in connecting, ConnectFails(c) PROVE StreamInv'
    BY <1>6 DEF ConnectFails, Fault, loopVars, StreamInv, Shapes, OneReads
  <1>7. ASSUME NEW t \in polls, PollAnswered(t) PROVE StreamInv'
    <2>1. CASE Refused(t)
      BY <1>7, <2>1, DisconnectKeeps DEF PollAnswered, Unauthorized, feedVars
    <2>2. CASE ~Refused(t)
      BY <1>7, <2>2 DEF PollAnswered, feedVars, StreamInv, Shapes, OneReads
    <2> QED BY <2>1, <2>2
  <1> QED BY <1>1, <1>2, <1>3, <1>4, <1>5, <1>6, <1>7

LEMMA StreamKeeps ==
    ASSUME StreamInv, NEW l \in loops,
           \/ StreamAnswered(l) \/ FramesWritten(l) \/ ConsumeFrame(l)
           \/ StreamEnds(l) \/ StreamFails(l) \/ Wakes(l)
    PROVE  StreamInv'
  <1>1. l \in LoopShape
    BY DEF StreamInv, Shapes
  <1>2. /\ log \in Seq(Kinds) /\ lastEventID \in Nat
        /\ l.at # "delay" => l.of = generation /\ l.stream.read = lastEventID
    BY DEF StreamInv, Shapes, OneReads
  <1>3. CASE StreamAnswered(l)
    <2>1. CASE Refused(l.sent)
      <3>1. generation' \in Nat /\ generation' > generation
        BY <1>3, <2>1 DEF StreamAnswered, StreamInv, Shapes
      <3> QED BY <1>3, <2>1, <3>1, AbortKeeps DEF StreamAnswered, feedVars
    <2>2. CASE ~Refused(l.sent)
      <3> DEFINE k == [l EXCEPT !.at = "read"]
      <3>1. k \in LoopShape /\ k.of = l.of /\ k.stream = l.stream
        BY <1>1 DEF LoopShape
      <3>2. loops' = (loops \ {l}) \cup {k}
        BY <1>3, <2>2 DEF StreamAnswered
      <3> HIDE DEF k
      <3> QED
        BY <1>2, <1>3, <2>2, <3>1, <3>2, ReplaceKeeps DEF StreamAnswered, feedVars
    <2> QED BY <2>1, <2>2
  <1>4. CASE FramesWritten(l)
    <2> DEFINE k == [l EXCEPT !.stream = Wrote(l.stream)]
    <2>1. k \in LoopShape /\ k.of = l.of /\ k.stream.read = l.stream.read
      BY <1>1, <1>2 DEF LoopShape, Wrote
    <2>2. loops' = (loops \ {l}) \cup {k}
      BY <1>4 DEF FramesWritten
    <2> HIDE DEF k
    <2> QED
      BY <1>2, <1>4, <2>1, <2>2, ReplaceKeeps DEF FramesWritten, feedVars, sessionVars
  <1>5. CASE ConsumeFrame(l)
    <2> DEFINE k == [l EXCEPT !.stream.read = NextFrame(l.stream)]
    <2>1. k \in LoopShape /\ k.of = l.of /\ k.stream.read = NextFrame(l.stream)
      BY <1>1 DEF LoopShape, NextFrame
    <2>2. loops' = (loops \ {l}) \cup {k}
      BY <1>5 DEF ConsumeFrame
    <2>3. NextFrame(l.stream) \in Nat
      BY <1>1 DEF LoopShape, NextFrame
    <2> HIDE DEF k
    <2> QED
      BY <1>2, <1>5, <2>1, <2>2, <2>3, ReplaceKeeps DEF ConsumeFrame, feedVars, sessionVars
  <1>6. CASE StreamEnds(l) \/ Wakes(l)
    BY <1>6, RoundKeeps DEF StreamEnds, Wakes, Fault, feedVars, sessionVars
  <1>7. CASE StreamFails(l)
    <2>1. CASE Continues(l.of)
      <3> DEFINE k == [l EXCEPT !.at = "delay"]
      <3>1. k \in LoopShape /\ k.of = l.of /\ k.at = "delay"
        BY <1>1 DEF LoopShape
      <3>2. loops' = (loops \ {l}) \cup {k}
        BY <1>7, <2>1 DEF StreamFails, Catches
      <3> HIDE DEF k
      <3> QED
        BY <1>2, <1>7, <3>1, <3>2, ReplaceKeeps DEF StreamFails, Fault, sessionVars
    <2>2. CASE ~Continues(l.of)
      BY <1>2, <1>7, <2>2, EndKeeps DEF StreamFails, Catches, Fault, sessionVars
    <2> QED BY <2>1, <2>2
  <1> QED BY <1>3, <1>4, <1>5, <1>6, <1>7

LEMMA ConsoleStep == StreamInv /\ [ConsoleNext]_consoleVars => StreamInv'
  <1> SUFFICES ASSUME StreamInv, [ConsoleNext]_consoleVars PROVE StreamInv'
    OBVIOUS
  <1>1. CASE Record({"user"}) /\ UNCHANGED <<sessionVars, loopVars, calls>>
    <2>1. log' \in Seq(Kinds)
      BY <1>1 DEF Record, Kinds, StreamInv, Shapes
    <2> QED BY <1>1, <2>1 DEF sessionVars, loopVars, StreamInv, Shapes, OneReads
  <1>2. CASE UNCHANGED consoleVars
    BY <1>2 DEF consoleVars, feedVars, sessionVars, loopVars, StreamInv, Shapes, OneReads
  <1> QED
    BY <1>1, <1>2, SessionKeeps, StreamKeeps DEF ConsoleNext, Answers, Delivers

\* Only a loop that reads consumes a frame, and it has read what was consumed.
LEMMA ConsumesNext ==
    ASSUME StreamInv, [ConsoleNext]_consoleVars
    PROVE  lastEventID' \in {lastEventID, lastEventID + 1}
  <1>1. ASSUME NEW l \in loops, ConsumeFrame(l) PROVE lastEventID' = lastEventID + 1
    BY <1>1 DEF ConsumeFrame, NextFrame, StreamInv, OneReads
  <1>2. CASE ConsoleNext /\ ~ \E l \in loops : ConsumeFrame(l)
    BY <1>2 DEF ConsoleNext, Answers, Delivers, SubmitToken, ChangeToken, Poll, StatusAnswered,
                ListsAnswered, PollAnswered, StreamAnswered, FramesWritten, Wakes, ConnectFails,
                StreamEnds, StreamFails, loopVars
  <1>3. CASE UNCHANGED consoleVars
    BY <1>3 DEF consoleVars, loopVars
  <1> QED BY <1>1, <1>2, <1>3

\* However the stream is aborted, retried and taken up by another session, no
\* frame is skipped and none is consumed twice.
THEOREM FramesInOrder == ConsoleSpec => EventsInOrder
  <1>1. StreamInv /\ [ConsoleNext]_consoleVars
            => [lastEventID' \in {lastEventID, lastEventID + 1}]_consoleVars
    BY ConsumesNext
  <1> QED
    BY <1>1, ConsoleInitInv, ConsoleStep, PTL DEF ConsoleSpec, EventsInOrder

-----------------------------------------------------------------------------
(* The review cards.                                                       *)

USE CardsAssumption

\* What is on the screen has the shape of a view, and shows the drafts.
CardsInv == CardsTypeOK /\ DraftsAreShown

\* What the server has is a view.
LEMMA ViewIsView ==
    ASSUME NEW s \in ConspectStatuses, NEW d \in Contents, NEW t \in BOOLEAN
    PROVE  View(s, d, t) \in Views
  BY DEF View, Views, NotListed

LEMMA CardsInitInv == CardsInit => CardsInv
  <1> SUFFICES ASSUME CardsInit PROVE CardsInv
    OBVIOUS
  <1>1. drafts \in Contents /\ decisions \in Contents
    BY DEF CardsInit, Contents
  <1>2. cards \in Views
    BY <1>1, ViewIsView DEF CardsInit, ConspectStatuses
  <1>3. edits \in 0..MaxCardEdits
    BY DEF CardsInit
  <1>4. conspect \in ConspectStatuses /\ tagged \in BOOLEAN
    BY DEF CardsInit, ConspectStatuses
  <1>5. CardsTypeOK
    BY <1>1, <1>2, <1>3, <1>4, Zenon DEF CardsInit, CardsTypeOK
  <1>6. DraftsAreShown
    BY DEF CardsInit, DraftsAreShown
  <1> QED BY <1>5, <1>6 DEF CardsInv

-----------------------------------------------------------------------------
\* A listed view has a content for every card.
LEMMA ListedView ==
    ASSUME NEW v \in Views, v # NotListed
    PROVE  /\ v \in [status : ConspectStatuses \ {"applied"}, content : Contents, tagged : BOOLEAN]
           /\ v.content \in Contents
  BY DEF Views

\* Whatever view is rendered, the cards show the drafts.
LEMMA RenderingShows ==
    ASSUME CardsInv, NEW v \in Views, Renders(v), drafts' = drafts
    PROVE  cards' \in Views /\ DraftsAreShown'
  <1>1. CASE v = NotListed
    BY <1>1 DEF Renders, Views, DraftsAreShown
  <1>2. CASE v # NotListed
    <2> DEFINE content == [i \in Cards |-> CardContent(v, i)]
    <2>1. cards' = [v EXCEPT !.content = content]
      BY <1>2 DEF Renders
    <2>2. content \in Contents
      BY <1>2, ListedView DEF CardContent, Contents, CardsInv, CardsTypeOK
    <2>3. /\ cards' \in [status : ConspectStatuses \ {"applied"}, content : Contents, tagged : BOOLEAN]
          /\ cards'.content = content
      BY <1>2, <2>1, <2>2, ListedView
    <2>4. \A i \in Cards : drafts[i] # 0 => content[i] = drafts[i]
      BY DEF CardContent
    <2> QED BY <2>3, <2>4 DEF Views, DraftsAreShown
  <1> QED BY <1>1, <1>2

\* Dropping drafts, with the screen left as it is, keeps the rest shown.
LEMMA DroppingShows ==
    ASSUME CardsInv, NEW C \in SUBSET Cards, drafts' = Without(C), cards' = cards
    PROVE  drafts' \in Contents /\ DraftsAreShown'
  <1>1. drafts' \in Contents
    BY DEF Without, Contents, CardsInv, CardsTypeOK
  <1>2. \A i \in Cards : drafts'[i] # 0 => drafts'[i] = drafts[i]
    BY DEF Without
  <1> QED BY <1>1, <1>2 DEF CardsInv, DraftsAreShown

\* A draft that is typed is on the screen.
LEMMA EditingShows ==
    ASSUME CardsInv, NEW i \in Cards, EditCard(i)
    PROVE  CardsInv'
  <1>1. cards \in Views /\ cards # NotListed
    BY DEF EditCard, CanEdit, EditableStatuses, NotListed, CardsInv, CardsTypeOK
  <1>2. edits' \in 0..MaxCardEdits
    BY DEF EditCard, CardsInv, CardsTypeOK
  <1>3. drafts' \in Contents
    BY <1>2 DEF EditCard, CardsInv, CardsTypeOK, Contents
  <1>4. /\ cards' \in [status : ConspectStatuses \ {"applied"}, content : Contents, tagged : BOOLEAN]
        /\ cards'.content = [cards.content EXCEPT ![i] = edits']
    BY <1>1, <1>2, ListedView DEF EditCard, Contents
  <1>5. CardsTypeOK'
    BY <1>2, <1>3, <1>4 DEF EditCard, CardsInv, CardsTypeOK, Views, conspectVars, View
  <1>6. DraftsAreShown'
    BY <1>1, <1>3, <1>4, ListedView DEF EditCard, CardsInv, CardsTypeOK, Contents, DraftsAreShown
  <1> QED BY <1>5, <1>6 DEF CardsInv

-----------------------------------------------------------------------------
\* A request that is sent has the content of the screen.
LEMMA SendingKeeps ==
    ASSUME CardsInv, NEW kind \in {"save", "split", "taxonomy", "apply"},
           NEW i, kind \in {"save", "split"} => i \in Cards,
           kind \in {"taxonomy", "apply"} => i = "all",
           NEW content \in 0..MaxCardEdits, Mutates(kind, i, content),
           apply' \in {"enabled", "disabled"}, busy' \subseteq Cards
    PROVE  CardsInv'
  <1>1. [kind |-> kind, card |-> i, content |-> content, shown |-> TRUE, answer |-> "none"]
            \in Mutation
    BY DEF Mutation, MutationsOf
  <1>2. mutations' \subseteq Mutation
    BY <1>1 DEF Mutates, CardsInv, CardsTypeOK
  <1> QED
    BY <1>2 DEF Mutates, CardsInv, CardsTypeOK, conspectVars, DraftsAreShown

LEMMA UserKeeps ==
    ASSUME CardsInv,
           \/ \E i \in Cards : SaveCard(i) \/ SplitCard(i)
           \/ SaveTag \/ ClickApply
    PROVE  CardsInv'
  <1>1. apply \in {"enabled", "disabled"} /\ busy \subseteq Cards
    BY DEF CardsInv, CardsTypeOK
  <1>2. ASSUME NEW i \in Cards, SaveCard(i) PROVE CardsInv'
    <2>1. cards \in Views /\ cards # NotListed
      BY <1>2 DEF SaveCard, CanEdit, EditableStatuses, NotListed, CardsInv, CardsTypeOK
    <2>2. cards.content[i] \in 0..MaxCardEdits
      BY <2>1, ListedView DEF Contents
    <2> QED BY <1>1, <1>2, <2>2, SendingKeeps DEF SaveCard
  <1>3. ASSUME NEW i \in Cards, SplitCard(i) PROVE CardsInv'
    BY <1>1, <1>3, SendingKeeps DEF SplitCard
  <1>4. CASE SaveTag
    BY <1>1, <1>4, SendingKeeps DEF SaveTag
  <1>5. CASE ClickApply
    BY <1>1, <1>5, SendingKeeps DEF ClickApply
  <1> QED BY <1>2, <1>3, <1>4, <1>5

\* What a refresh asks for is a view.
LEMMA AskingKeeps ==
    ASSUME CardsTypeOK, Asks, conspect' \in ConspectStatuses, decisions' \in Contents,
           tagged' \in BOOLEAN
    PROVE  refreshes' \subseteq Views
  BY ViewIsView DEF Asks, CardsTypeOK

LEMMA RefreshKeeps ==
    ASSUME CardsInv, \/ RefreshClicked \/ EventArrives
                     \/ \E view \in refreshes : Refreshed(view)
    PROVE  CardsInv'
  <1>1. CASE RefreshClicked
    <2>1. refreshes' \subseteq Views
      BY <1>1, AskingKeeps DEF RefreshClicked, conspectVars, CardsInv, CardsTypeOK
    <2> QED
      BY <1>1, <2>1 DEF RefreshClicked, conspectVars, screenVars, CardsInv, CardsTypeOK,
                        DraftsAreShown
  <1>2. ASSUME NEW view \in refreshes, Refreshed(view) PROVE CardsInv'
    <2>1. view \in Views /\ Renders(view) /\ drafts' = drafts
      BY <1>2 DEF Refreshed, CardsInv, CardsTypeOK
    <2>2. cards' \in Views /\ DraftsAreShown'
      BY <2>1, RenderingShows
    <2>3. mutations' \subseteq Mutation
      BY <2>1 DEF Renders, Mutation, MutationsOf, CardsInv, CardsTypeOK
    <2>4. apply' \in {"enabled", "disabled"} /\ busy' \subseteq Cards
      BY <2>1 DEF Renders
    <2> QED
      BY <1>2, <2>2, <2>3, <2>4 DEF Refreshed, conspectVars, CardsInv, CardsTypeOK
  <1> QED BY <1>1, <1>2 DEF EventArrives

\* The server's turn leaves the page alone.
LEMMA ServerKeeps ==
    ASSUME CardsInv, PreparationEnds \/ \E m \in mutations : Serve(m)
    PROVE  CardsInv'
  <1>1. ASSUME NEW R, NEW t PROVE StatusOf(R, t) \in ConspectStatuses
    BY DEF StatusOf, ConspectStatuses
  <1>2. CASE PreparationEnds
    BY <1>1, <1>2 DEF PreparationEnds, screenVars, CardsInv, CardsTypeOK, DraftsAreShown
  <1>3. ASSUME NEW m \in mutations, Serve(m) PROVE CardsInv'
    <2>1. m \in Mutation
      BY DEF CardsInv, CardsTypeOK
    <2>2. PICK a \in {"ok", "conflict", "failed"} :
              /\ \/ a = "ok"       /\ Succeeds(m)
                 \/ a = "conflict" /\ ConflictAnswered(m)
                 \/ a = "failed"   /\ UNCHANGED conspectVars
              /\ mutations' = (mutations \ {m}) \cup {[m EXCEPT !.answer = a]}
      BY <1>3 DEF Serve
    <2>3. mutations' \subseteq Mutation
      BY <2>1, <2>2 DEF Mutation, MutationsOf, CardsInv, CardsTypeOK
    <2>4. /\ conspect' \in ConspectStatuses /\ decisions' \in Contents
          /\ resolved' \subseteq Cards /\ tagged' \in BOOLEAN
      <3>1. CASE Succeeds(m)
        <4>1. CASE m.kind = "save"
          BY <1>1, <2>1, <3>1, <4>1 DEF Succeeds, Mutation, MutationsOf, Contents, CardsInv,
                                        CardsTypeOK
        <4>2. CASE m.kind # "save"
          BY <1>1, <2>1, <3>1, <4>2 DEF Succeeds, Prepares, ConspectStatuses, CardsInv, CardsTypeOK
        <4> QED BY <4>1, <4>2
      <3>2. CASE ConflictAnswered(m)
        BY <3>2 DEF ConflictAnswered, Prepares, conspectVars, ConspectStatuses, CardsInv,
                    CardsTypeOK
      <3>3. CASE UNCHANGED conspectVars
        BY <3>3 DEF conspectVars, CardsInv, CardsTypeOK
      <3> QED BY <2>2, <3>1, <3>2, <3>3
    <2> QED
      BY <1>3, <2>3, <2>4 DEF Serve, screenVars, CardsInv, CardsTypeOK, DraftsAreShown
  <1> QED BY <1>2, <1>3

\* The end of a request drops drafts or enables buttons.
LEMMA MutationEndKeeps ==
    ASSUME CardsInv, NEW m \in mutations,
           MutationSaved(m) \/ MutationConflicts(m) \/ MutationFails(m)
    PROVE  CardsInv'
  <1>1. CASE MutationSaved(m) \/ MutationConflicts(m)
    <2>1. PICK C \in SUBSET Cards : drafts' = Without(C)
      <3>1. MutationConflicts(m) => drafts' = Without(Cards)
        BY DEF MutationConflicts
      <3>2. MutationSaved(m) => drafts' = Without(Deletes(m) \cap Cards)
        BY DEF MutationSaved, Without
      <3> QED BY <1>1, <3>1, <3>2
    <2>2. /\ drafts' \in Contents /\ DraftsAreShown'
      BY <1>1, <2>1, DroppingShows DEF MutationSaved, MutationConflicts, screenVars
    <2>3. refreshes' \subseteq Views
      BY <1>1, AskingKeeps DEF MutationSaved, MutationConflicts, conspectVars, CardsInv,
                               CardsTypeOK
    <2> QED
      BY <1>1, <2>2, <2>3 DEF MutationSaved, MutationConflicts, Over, conspectVars, screenVars,
                              CardsInv, CardsTypeOK
  <1>2. CASE MutationFails(m)
    BY <1>2 DEF MutationFails, Over, conspectVars, CardsInv, CardsTypeOK, DraftsAreShown
  <1> QED BY <1>1, <1>2

-----------------------------------------------------------------------------
LEMMA CardsStep == CardsInv /\ [CardsNext]_cardVars => CardsInv'
  <1> SUFFICES ASSUME CardsInv, [CardsNext]_cardVars PROVE CardsInv'
    OBVIOUS
  <1>1. CASE UNCHANGED cardVars
    BY <1>1 DEF cardVars, conspectVars, screenVars, CardsInv, CardsTypeOK, DraftsAreShown
  <1>2. CASE CardsNext
    BY <1>2, EditingShows, UserKeeps, RefreshKeeps, ServerKeeps, MutationEndKeeps DEF CardsNext
  <1> QED BY <1>1, <1>2

\* Whatever is refreshed, in whatever order, saved, split and applied meanwhile,
\* what has been typed is what is on the screen and what is saved next.
THEOREM TypedIsShown == CardsSpec => []DraftsAreShown
  <1>1. CardsInv => DraftsAreShown
    BY DEF CardsInv
  <1> QED BY <1>1, CardsInitInv, CardsStep, PTL DEF CardsSpec
=============================================================================
