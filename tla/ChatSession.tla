---------------------------- MODULE ChatSession ----------------------------
(* The chat of the studio (use-chat.ts): messages kept in the hook, a streamed
   answer that edits its placeholder, the history of each session in the query
   cache, and the effect that merges the two.  The session is the store's, so
   links and the command palette change it without going through the hook.
   Left out: the text of answers, trace steps, sources and usage.                *)
EXTENDS Naturals, Sequences, Functions, QueryCache, Filter

CONSTANTS ChatRepos, ChatSessions, Texts, NoChat,
          HistoryLimit,  \* messages the page asks for, the oldest (100 in the code)
          MaxSends, MaxMoves

VARIABLES repo,      \* the selected repository
          current,   \* the store's activeSessionId
          messages,  \* the hook's messages
          stream,    \* the send whose controller the hook holds, or NoChat
          isSending,
          historySync, \* the session scheduleHistorySync waits for, or NoChat
          chatDue,   \* the dependencies of the pending effects
          stored,    \* server: the messages of each session
          owner,     \* server: the repository of each session, NoChat if not created
          history,   \* query cache: the messages of each session
          sends, moves,
          gap,       \* history: a send did not end as one stored pair
          skipped    \* history: news was hidden by the 500 ms window or an older answer
hookVars == <<messages, stream, isSending, historySync>>
serverVars == <<stored, owner>>
chatVars == <<repo, current, hookVars, chatDue, serverVars, history, skipped,
              sends, moves, gap>>

Message(origin, role, n, text) ==
  [id |-> <<origin, role, n>>, role |-> role, n |-> n, text |-> text,
   streaming |-> origin = "local" /\ role = "assistant"]
Messages ==
  [id : {"local", "server"} \X {"user", "assistant"} \X Nat, role : {"user", "assistant"},
   n : Nat, text : Texts, streaming : BOOLEAN]
\* A send: its session once that is known, and what the server will store of it.
Sends ==
  [n : Nat, session : ChatSessions \cup {NoChat}, repo : ChatRepos, pair : Seq(Messages),
   started : BOOLEAN, answered : BOOLEAN]
ASSUME ChatAssumption == NoChat \notin ChatSessions /\ NoChat \notin Sends
ASSUME ChatBounds == MaxSends \in Nat /\ MaxMoves \in Nat /\ HistoryLimit \in Nat

Ids(seq) == {seq[i].id : i \in DOMAIN seq}
UserMessages(seq) == Filtered(seq, {i \in DOMAIN seq : seq[i].role = "user"})
AnswerMessages(seq) == Filtered(seq, {i \in DOMAIN seq : seq[i].role = "assistant"})
Shape(seq) == [i \in DOMAIN seq |-> <<seq[i].role, seq[i].n>>]
UsersMatch(local, server) == local.text = server.text

-----------------------------------------------------------------------------
(* mergeServerMessages *)

FirstMatch(m, users) ==
  LET hits == {i \in DOMAIN users : UsersMatch(m, users[i])}
  IN IF hits = {} THEN {} ELSE {users[CHOOSE i \in hits : \A j \in hits : i <= j]}

\* One local message: its server version if that is not yet placed, else itself; an
\* unfinished answer without a server version is dropped.
Place(acc, m, users, answers) ==
  LET taken == Ids(acc.out)
      server == IF m.role = "user" THEN FirstMatch(m, users)
                ELSE IF acc.next <= Len(answers) THEN {answers[acc.next]} ELSE {}
      fresh == {x \in server : x.id \notin taken}
  IN IF fresh # {}
     THEN [out |-> Append(acc.out, CHOOSE x \in fresh : TRUE),
           next |-> IF m.role = "user" THEN acc.next ELSE acc.next + 1]
     ELSE IF m.role = "assistant" /\ m.streaming THEN acc
          ELSE [acc EXCEPT !.out = Append(@, m)]

MergeServerMessages(local, server) ==
  LET users == UserMessages(server)
      answers == AnswerMessages(server)
      orphans == {i \in DOMAIN local : local[i].role = "user" /\ FirstMatch(local[i], users) = {}}
      placed[i \in 0 .. Len(local)] ==
        IF i = 0 THEN [out |-> <<>>, next |-> 1]
        ELSE Place(placed[i - 1], local[i], users, answers)
      merged == placed[Len(local)].out
  IN IF server = <<>> THEN local
     ELSE IF local = <<>> \/ (orphans = {} /\ Len(server) >= Len(local)) THEN server
     ELSE merged \o Filtered(server, {i \in DOMAIN server : server[i].id \notin Ids(merged)})

-----------------------------------------------------------------------------
ChatInit ==
  /\ repo \in ChatRepos /\ current = NoChat
  /\ messages = <<>> /\ stream = NoChat /\ isSending = FALSE /\ historySync = NoChat
  /\ chatDue = {}
  /\ stored = [s \in ChatSessions |-> <<>>] /\ owner = [s \in ChatSessions |-> NoChat]
  /\ history = [s \in ChatSessions |-> EmptyQuery]
  /\ sends = 0 /\ moves = 0 /\ gap = FALSE
  /\ skipped = FALSE

Streaming == stream # NoChat
\* Effects run after the render, before anything else happens in the page.
Idle == chatDue = {}

\* abortControllerRef is aborted and forgotten; the server may still store the pair.
Abort ==
  /\ stream' = NoChat /\ isSending' = FALSE
  /\ gap' = (gap \/ Streaming)
AbortStores ==
  \/ UNCHANGED stored
  \/ /\ Streaming /\ stream.session # NoChat /\ ~stream.answered
     /\ stored' = [stored EXCEPT ![stream.session] = @ \o stream.pair]

Invalidate(s) == history' = [history EXCEPT ![s] = Invalidated(@, s = current)]

\* The items the page shows the history from.
Items == history[current].data

\* The conditions of the history effect; the 500 ms window is historySync itself.
HistoryReady ==
  /\ current # NoChat /\ Items \notin {NoData, <<>>}
  /\ ~isSending /\ historySync = NoChat

\* News that the window keeps from the merge.
NewsHidden ==
  /\ historySync # NoChat /\ current # NoChat /\ Items # NoData
  /\ ~(Range(Shape(Items)) \subseteq Range(Shape(messages)))

\* Mutant: the messages stay when the session goes.
RunChatEffectsKeeping ==
  /\ ~Idle /\ chatDue' = {}
  /\ messages' = IF HistoryReady THEN MergeServerMessages(messages, Items) ELSE messages
  /\ skipped' = (skipped \/ NewsHidden)
  /\ UNCHANGED <<repo, current, stream, isSending, historySync, serverVars, history,
                 sends, moves, gap>>

\* The two effects: a session that goes takes its messages along, and a shown history is
\* merged in when nothing stands against it.
RunChatEffects ==
  /\ ~Idle /\ chatDue' = {}
  /\ messages' = IF "session" \in chatDue /\ current = NoChat THEN <<>>
                 ELSE IF HistoryReady THEN MergeServerMessages(messages, Items)
                 ELSE messages
  /\ skipped' = (skipped \/ NewsHidden)
  /\ UNCHANGED <<repo, current, stream, isSending, historySync, serverVars, history,
                 sends, moves, gap>>

SendMessage(text) ==
  /\ Idle /\ ~isSending /\ sends < MaxSends
  /\ LET n == sends + 1
         pair == <<Message("server", "user", n, text), Message("server", "assistant", n, text)>>
     IN /\ sends' = n
        /\ messages' = messages \o <<Message("local", "user", n, text),
                                     Message("local", "assistant", n, text)>>
        /\ stream' = [n |-> n, session |-> current, repo |-> repo, pair |-> pair,
                      started |-> FALSE, answered |-> FALSE]
  /\ isSending' = TRUE /\ chatDue' = {"sending"}
  /\ UNCHANGED <<repo, current, historySync, serverVars, history, skipped, moves, gap>>

\* "start": the server names the session, one it has just created for a new chat.
EventStart(s) ==
  /\ Idle /\ Streaming /\ ~stream.started
  /\ IF stream.session = NoChat
     THEN /\ owner[s] = NoChat
          /\ owner' = [owner EXCEPT ![s] = stream.repo]
          /\ current' = s
          /\ chatDue' = IF current = s THEN {} ELSE {"session"}
     ELSE s = stream.session /\ UNCHANGED <<owner, current, chatDue>>
  /\ stream' = [stream EXCEPT !.started = TRUE, !.session = s]
  /\ UNCHANGED <<repo, messages, isSending, historySync, stored, history, skipped,
                 sends, moves, gap>>

\* The server stores question and answer together; it goes on if that fails.
ServerStores(ok) ==
  /\ Streaming /\ stream.started /\ ~stream.answered
  /\ stream' = [stream EXCEPT !.answered = TRUE]
  /\ stored' = IF ok THEN [stored EXCEPT ![stream.session] = @ \o stream.pair] ELSE stored
  /\ gap' = (gap \/ ~ok)
  /\ UNCHANGED <<repo, current, messages, isSending, historySync, chatDue, owner,
                 history, skipped, sends, moves>>

Settled(n) ==
  [i \in DOMAIN messages |->
     IF messages[i].id = <<"local", "assistant", n>>
     THEN [messages[i] EXCEPT !.streaming = FALSE] ELSE messages[i]]

\* Mutant: the controller is dropped, the flag is not.
StreamEndsSending(ok) ==
  /\ Idle /\ Streaming /\ (ok => stream.answered)
  /\ messages' = IF ok THEN Settled(stream.n) ELSE messages
  /\ stream' = NoChat /\ isSending' = TRUE /\ chatDue' = {"sending"}
  /\ gap' = (gap \/ ~ok)
  /\ UNCHANGED <<repo, current, historySync, serverVars, history, skipped, sends, moves>>

\* "done" and the end of the stream, or an error at any point of it; then finally.
StreamEnds(ok) ==
  /\ Idle /\ Streaming /\ (ok => stream.answered)
  /\ messages' = IF ok THEN Settled(stream.n) ELSE messages
  /\ stream' = NoChat /\ isSending' = FALSE /\ chatDue' = {"sending"}
  /\ historySync' = IF stream.session # NoChat THEN stream.session ELSE historySync
  /\ gap' = (gap \/ ~ok)
  /\ skipped' = (skipped \/ historySync \notin {NoChat, stream.session})
  /\ UNCHANGED <<repo, current, serverVars, history, sends, moves>>

\* The timer: the window closes and the history is fetched again.
SyncTimer ==
  /\ Idle /\ historySync # NoChat
  /\ historySync' = NoChat
  /\ Invalidate(historySync)
  /\ skipped' = (skipped \/ history'[historySync].flight # NoData)
  /\ UNCHANGED <<repo, current, messages, stream, isSending, chatDue, serverVars,
                 sends, moves, gap>>

\* The server answers with the messages from the oldest on; the page asks for no others.
OldestPage(seq) == SubSeq(seq, 1, IF Len(seq) < HistoryLimit THEN Len(seq) ELSE HistoryLimit)

\* The shown history is asked of the server; the answer comes later.
FetchHistory ==
  /\ current # NoChat /\ NeedsFetch(history[current])
  /\ history' = [history EXCEPT ![current] = Fetched(@, OldestPage(stored[current]))]
  /\ UNCHANGED <<repo, current, hookVars, chatDue, serverVars, skipped, sends, moves, gap>>
HistoryArrives(s) ==
  /\ Idle /\ HasAnswer(history[s])
  /\ history' = [history EXCEPT ![s] = Answered(@)]
  /\ chatDue' = IF s = current /\ Items # history[s].flight THEN {"items"} ELSE {}
  /\ UNCHANGED <<repo, current, hookVars, serverVars, skipped, sends, moves, gap>>

-----------------------------------------------------------------------------
Move == Idle /\ moves < MaxMoves /\ moves' = moves + 1
Show(s) == current' = s /\ chatDue' = IF current = s THEN {} ELSE {"session"}

\* A row of the session list (selectSession); the current one is only fetched again.
SelectSession(s) ==
  /\ Move /\ owner[s] # NoChat
  /\ IF s = current
     THEN /\ Invalidate(s)
          /\ UNCHANGED <<messages, stream, isSending, gap, stored, current, chatDue>>
     ELSE /\ Abort /\ AbortStores /\ Show(s) /\ messages' = <<>>
          /\ UNCHANGED history
  /\ UNCHANGED <<repo, historySync, owner, skipped, sends>>

\* "New session" of the sidebar (clearMessages).
ClearMessages ==
  /\ Move /\ Abort /\ AbortStores /\ Show(NoChat) /\ messages' = <<>>
  /\ UNCHANGED <<repo, historySync, owner, history, skipped, sends>>

StopGeneration ==
  /\ Move /\ Streaming /\ Abort /\ AbortStores /\ chatDue' = {"sending"}
  /\ UNCHANGED <<repo, current, messages, historySync, owner, history, skipped, sends>>

\* The command palette and links write the store only: the stream goes on.
PaletteNewSession ==
  /\ Move /\ Show(NoChat)
  /\ UNCHANGED <<repo, hookVars, serverVars, history, skipped, sends, gap>>
SwitchRepository(r) ==
  /\ Move /\ r # repo /\ repo' = r /\ Show(NoChat)
  /\ UNCHANGED <<hookVars, serverVars, history, skipped, sends, gap>>

ChatNext ==
  \/ RunChatEffects
  \/ \E t \in Texts : SendMessage(t)
  \/ \E s \in ChatSessions : EventStart(s) \/ HistoryArrives(s) \/ SelectSession(s)
  \/ \E ok \in BOOLEAN : ServerStores(ok) \/ StreamEnds(ok)
  \/ SyncTimer \/ FetchHistory
  \/ ClearMessages \/ StopGeneration \/ PaletteNewSession
  \/ \E r \in ChatRepos : SwitchRepository(r)

ChatSpec == ChatInit /\ [][ChatNext]_chatVars

\* The browser runs effects and timers, the server answers and ends its streams.
ChatFairness ==
  /\ WF_chatVars(RunChatEffects) /\ WF_chatVars(SyncTimer) /\ WF_chatVars(FetchHistory)
  /\ WF_chatVars(\E s \in ChatSessions : EventStart(s))
  /\ WF_chatVars(\E s \in ChatSessions : HistoryArrives(s))
  /\ WF_chatVars(\E ok \in BOOLEAN : ServerStores(ok))
  /\ WF_chatVars(\E ok \in BOOLEAN : StreamEnds(ok))

-----------------------------------------------------------------------------
ChatTypeOK ==
  /\ repo \in ChatRepos /\ current \in ChatSessions \cup {NoChat}
  /\ isSending \in BOOLEAN /\ gap \in BOOLEAN /\ chatDue \subseteq {"session", "items", "sending"}
  /\ historySync \in ChatSessions \cup {NoChat}
  /\ owner \in [ChatSessions -> ChatRepos \cup {NoChat}]
  /\ sends \in 0 .. MaxSends /\ moves \in 0 .. MaxMoves

\* isSending, its ref and the controller are three variables changed at six places; if
\* they part, the composer stays disabled or a second answer streams over the first.
SendingMatchesStream == isSending <=> Streaming

\* No session has more messages than the page asks for.
HistoriesFit == \A s \in ChatSessions : Len(stored[s]) <= HistoryLimit

\* While every send ended as one stored pair, no older history was shown and the histories
\* fit the page, each answer stands right below its own question, whatever mix of local and
\* fetched messages the merges have seen.  (The merge finds a question by its text and an
\* answer by its place in the history: when a first fetch, invalidated on its way, brings a
\* history without the last question, that question takes the first answer of the history.)
AnswersUnderQuestions ==
  ~gap /\ ~skipped /\ HistoriesFit =>
    \A i \in DOMAIN messages : messages[i].role = "assistant" =>
      /\ i > 1 /\ messages[i - 1].role = "user" /\ messages[i - 1].n = messages[i].n

\* Once the user stops, the page shows what the server stored of a session that fits: no
\* order of answers, fetches and the window leaves it behind.  (When the window makes the
\* effect return with news, nothing runs it again: the refetch gives the same items.  And
\* the end of a second answer inside the window replaces the timer of the first one's
\* session; and an invalidated first fetch, still on its way, is not asked again.)
ChatCatchesUp ==
  <>[](~gap /\ ~skipped /\ HistoriesFit /\ current # NoChat
         => Shape(messages) = Shape(stored[current]))

\* Nothing is sent, timed, due or asked for in the session shown.
PageRests ==
  current # NoChat /\ Idle /\ ~Streaming /\ historySync = NoChat /\ CacheRests(history[current])

\* What makes it so, whatever is fair: at rest the page shows the questions and answers that
\* are stored, in their order.
ChatAtRest ==
  ~gap /\ ~skipped /\ HistoriesFit /\ PageRests => Shape(messages) = Shape(stored[current])
=============================================================================
